---- MODULE Spec2Model ----
(***************************************************************************)
(* barsPlus: the data shaper (initData with toposort) of ldw-barsPlus.js   *)
(* and the refresh life cycle of the barsPlus directive (link, the data,   *)
(* resize and colour watches, paint in edit mode, refreshChart and its     *)
(* inThrottle timer).                                                      *)
(*                                                                         *)
(* JavaScript Numbers are modelled as exact fractions [n, d]: d > 0 is the *)
(* finite value n/d in lowest terms, d = 0 is NaN (n = 0), +Infinity       *)
(* (n = 1) or -Infinity (n = -1).  A field that is undefined in the code   *)
(* is the string "undefined" (texts), the empty sequence (arrays) or 0     *)
(* (nDims).  qElemNumber of a point is a sequence: <<e>> for the scalar    *)
(* element number, <<e1, e2>> for the pair, << >> for the empty array.      *)
(***************************************************************************)
EXTENDS Integers, Sequences, FiniteSets, TLC

VARIABLES
  pc,          \* "created": properties and rawData set, initData not yet called;
               \* "shaped": initData returned; "linked": link returned, the watches
               \* are registered; "failed": link threw, no watch is registered
  rawData,     \* g.rawData
  defDims,     \* g.defDims
  defMeas,     \* g.defMeas
  measures,    \* g.measures
  normalized,  \* g.normalized
  propNormalized, \* $scope.layout.props.normalized, which initProps copies
  showDeltas,  \* g.showDeltas
  data,        \* g.data
  flatData,    \* g.flatData
  allDim2,     \* g.allDim2
  allCol2,     \* g.allCol2
  nDims,       \* g.nDims
  deltas,      \* g.deltas
  width,       \* g.width
  svgWidth,    \* the width attribute of the svg that initChart appended, 0 before
  inThrottle,  \* module variable inThrottle
  timers,      \* number of pending setTimeout callbacks of refreshChart
  props,       \* the presentation properties that initProps copies into g:
               \* orientation, barGap, outerGap, gridHeight, showTexts
  max,         \* g.max
  min,         \* g.min
  mScale,      \* g.mScale: [domain, range] of the linear scale
  dScale,      \* g.dScale: [domain, range, rangeBand, extent, padding,
               \* outerPadding] of the ordinal scale
  bars,        \* x, y, width, height of the rect of every point of g.flatData
  polys,       \* the points attribute of the polygon of every delta
  label,       \* the label text barText is to fit
  tref,        \* the text of g.tref, the element texts are measured with
  maxLength,   \* the maxLength argument of ellipseText
  fitted,      \* what the successive calls of ellipseText returned
  textOpts,    \* the text properties that initProps copies into g: rotateLabel,
               \* vAlign, hAlign, innerBarPadH, innerBarPadV, textDots
  plan,        \* the barText calls made: the datum, the type, the text put
               \* into g.tref and what barText returned
  shown,       \* the texts of the tick labels and legend items that were
               \* truncated: where, and the text the element shows
  charts,      \* the chart objects of a sheet with several charts, which share
               \* inThrottle: for each, where its refreshChart call is, the
               \* calls made, the pipeline runs begun, its pending timeouts
               \* and how its last call ended
  prefix,      \* a call of the d3.formatPrefix that overrideD3FormatPrefix
               \* installed: its table, its value, its precision, where it is
  legend       \* the legend that initChart built: its geometry, the scrollTop
               \* of its container, the disabled property of its two buttons

gvars == <<rawData, defDims, defMeas, measures, normalized, propNormalized,
           showDeltas, data, flatData, allDim2, allCol2, nDims, deltas>>
rvars == <<width, svgWidth, inThrottle, timers>>
cvars == <<max, min, mScale, dScale, bars, polys>>
fvars == <<label, tref, maxLength, fitted, textOpts, plan, shown, charts, prefix,
          legend>>
vars == <<pc, gvars, rvars, props, cvars, fvars>>

----------------------------------------------------------------------------
(* Bounds *)

\* most measure cells in one delivery of the shaper specification
MaxPoints == 3
\* most measure cells in one delivery of the life-cycle specification
MaxLifePoints == 2

----------------------------------------------------------------------------
(* JavaScript Number arithmetic *)

Abs(k) == IF k < 0 THEN -k ELSE k
Sgn(k) == IF k < 0 THEN -1 ELSE IF k > 0 THEN 1 ELSE 0

RECURSIVE GCD(_, _)
GCD(a, b) == IF b = 0 THEN a ELSE GCD(b, a % b)

NaN == [n |-> 0, d |-> 0]
Num(k) == [n |-> k, d |-> 1]
Frac(n, d) ==
  IF d = 0 THEN [n |-> Sgn(n), d |-> 0]
  ELSE LET s == IF d < 0 THEN -1 ELSE 1
           c == GCD(Abs(n), Abs(d))
       IN [n |-> (s * n) \div c, d |-> (s * d) \div c]

IsNaN(x) == x.d = 0 /\ x.n = 0
IsFinite(x) == x.d # 0

\* x < y, false when either is NaN
NumLt(x, y) ==
  /\ ~IsNaN(x) /\ ~IsNaN(y)
  /\ IF x.d = 0 \/ y.d = 0
     THEN (x.d = 0 /\ x.n < 0 /\ ~(y.d = 0 /\ y.n < 0))
          \/ (y.d = 0 /\ y.n > 0 /\ ~(x.d = 0 /\ x.n > 0))
     ELSE x.n * y.d < y.n * x.d
\* x == y, false when either is NaN
NumEq(x, y) == ~IsNaN(x) /\ ~IsNaN(y) /\ x = y
\* x <= y, false when either is NaN
NumLe(x, y) == NumLt(x, y) \/ NumEq(x, y)
NumNeg(x) == [n |-> -x.n, d |-> x.d]
NumAdd(x, y) ==
  IF IsNaN(x) \/ IsNaN(y) THEN NaN
  ELSE IF x.d = 0 /\ y.d = 0 THEN (IF x.n = y.n THEN x ELSE NaN)
  ELSE IF x.d = 0 THEN x
  ELSE IF y.d = 0 THEN y
  ELSE Frac(x.n * y.d + y.n * x.d, x.d * y.d)
NumSub(x, y) == NumAdd(x, NumNeg(y))
NumDiv(x, y) ==
  IF IsNaN(x) \/ IsNaN(y) THEN NaN
  ELSE IF x.d = 0 /\ y.d = 0 THEN NaN
  ELSE IF y.d = 0 THEN Num(0)
  ELSE IF x.d = 0 THEN (IF y.n < 0 THEN NumNeg(x) ELSE x)
  ELSE Frac(x.n * y.d, x.d * y.n)

\* d3.format(".1%"): the value times 100 with one decimal and a percent sign
FormatPct(x) ==
  IF IsNaN(x) THEN "NaN%"
  ELSE IF x.d = 0 THEN (IF x.n < 0 THEN "-Infinity%" ELSE "Infinity%")
  ELSE LET m == (2000 * Abs(x.n) + x.d) \div (2 * x.d)
       IN (IF x.n < 0 /\ m > 0 THEN "-" ELSE "")
          \o ToString(m \div 10) \o "." \o ToString(m % 10) \o "%"

NumMul(x, y) ==
  IF IsNaN(x) \/ IsNaN(y) THEN NaN
  ELSE IF x.d = 0 \/ y.d = 0
  THEN (IF x.n = 0 \/ y.n = 0 THEN NaN ELSE [n |-> Sgn(x.n) * Sgn(y.n), d |-> 0])
  ELSE Frac(x.n * y.n, x.d * y.d)
\* Math.abs, Math.floor, Math.ceil, Math.round
MathAbs(x) == [n |-> Abs(x.n), d |-> x.d]
MathFloor(x) == IF x.d = 0 THEN x ELSE Num(x.n \div x.d)
MathCeil(x) == IF x.d = 0 THEN x ELSE Num(-((-x.n) \div x.d))
MathRound(x) == MathFloor(NumAdd(x, Frac(1, 2)))
\* Math.max and Math.min of two numbers: NaN when either is NaN
MathMax(x, y) ==
  IF IsNaN(x) \/ IsNaN(y) THEN NaN ELSE IF NumLt(x, y) THEN y ELSE x
MathMin(x, y) ==
  IF IsNaN(x) \/ IsNaN(y) THEN NaN ELSE IF NumLt(y, x) THEN y ELSE x
\* whether a number is truthy: neither 0 nor NaN
Truthy(x) == ~IsNaN(x) /\ x # Num(0)


----------------------------------------------------------------------------
(* Array helpers *)

\* Array.prototype.indexOf, 1-based, 0 when absent
RECURSIVE IndexFrom(_, _, _)
IndexFrom(s, x, i) ==
  IF i > Len(s) THEN 0 ELSE IF s[i] = x THEN i ELSE IndexFrom(s, x, i + 1)
IndexOf(s, x) == IndexFrom(s, x, 1)
Contains(s, x) == \E i \in 1..Len(s) : s[i] = x

Undefined == "undefined"

----------------------------------------------------------------------------
(* Raw data: the hypercube matrix the host delivers *)

Dim1Keys == <<"a", "b">>
Dim2Keys == <<"x", "y">>
MeasureNames == <<"m1", "m2">>
QNums == {Num(-1), Num(0), Num(1)}
\* the qNum of a null measure cell
NullNums == {NaN}

\* qText of a measure cell: the host's formatting of the number
NumText(v) == IF IsNaN(v) THEN "-" ELSE ToString(v.n)

DimCell(keys, i) == [qText |-> keys[i], qNum |-> NaN, qElemNumber |-> i - 1]
MeasCell(v) == [qText |-> NumText(v), qNum |-> v, qElemNumber |-> 0]

Dim1Cells == {DimCell(Dim1Keys, i) : i \in 1..Len(Dim1Keys)}
Dim2Cells == {DimCell(Dim2Keys, i) : i \in 1..Len(Dim2Keys)}
MeasCells == {MeasCell(v) : v \in QNums}
NullableCells == {MeasCell(v) : v \in QNums \cup NullNums}

\* rows of nd dimension cells followed by nm measure cells drawn from cells
RowsOf(nd, nm, cells) ==
  LET ms == [1..nm -> cells]
  IN CASE nd = 0 -> ms
       [] nd = 1 -> {<<c>> \o m : c \in Dim1Cells, m \in ms}
       [] OTHER  -> {<<c1, c2>> \o m : c1 \in Dim1Cells, c2 \in Dim2Cells, m \in ms}

\* the row shapes the property panel allows (at most 2 dimensions; one
\* measure with 2 dimensions), measures bounded by Len(MeasureNames)
Shapes == {<<0, 1>>, <<0, 2>>, <<1, 1>>, <<1, 2>>, <<2, 1>>}

\* matrices of rows of one shape holding at most maxCells measure cells
MatricesOf(nd, nm, maxCells) ==
  UNION {[1..k -> RowsOf(nd, nm, MeasCells)] : k \in 0..(maxCells \div nm)}
\* single rows of every shape, null measure cells included
SingleRows ==
  UNION {{<<row>> : row \in RowsOf(sh[1], sh[2], NullableCells)} : sh \in Shapes}

\* initProps: g.measures holds the titles of the defMeas measures
MeasuresOf(nd, nm) ==
  IF nd = 0 \/ (nd = 1 /\ nm > 1) THEN SubSeq(MeasureNames, 1, nm) ELSE << >>

----------------------------------------------------------------------------
(* initData: transformation of multiple measures *)

PseudoDim(ms, j) == [qElemNumber |-> -1, qNum |-> Num(j), qText |-> ms[j]]

\* the measure cell that the pseudo series j of raw row d carries
MeasureOfRowBad(d, j) == d[2]
MeasureOfRow(d, j) == d[j + 1]

InData(raw, nd, nm, ms) ==
  LET m == Len(ms)
      I(k) == ((k - 1) \div m) + 1
      J(k) == ((k - 1) % m) + 1
  IN IF nd = 0
     THEN [k \in 1..(Len(raw) * m) |-> <<PseudoDim(ms, J(k)), raw[I(k)][J(k)]>>]
     ELSE IF nd = 1 /\ nm > 1
     THEN [k \in 1..(Len(raw) * m) |->
             <<raw[I(k)][1], PseudoDim(ms, J(k)), MeasureOfRow(raw[I(k)], J(k))>>]
     ELSE raw

\* cf: the colour attribute, always 0
cf(d) == 0

----------------------------------------------------------------------------
(* initData: one dimension *)

OneDimGroup(d) ==
  LET neg == NumLt(d[2].qNum, Num(0))
  IN [dim1 |-> d[1].qText,
      offsetPos |-> IF neg THEN Num(0) ELSE d[2].qNum,
      offsetNeg |-> IF neg THEN d[2].qNum ELSE Num(0),
      values |-> << >>]

OneDimPoint(d) ==
  [dim1 |-> d[1].qText, dim2 |-> d[1].qText, offset |-> Num(0),
   qNum |-> d[2].qNum, qText |-> d[2].qText, qTextPct |-> "",
   qElemNumber |-> <<d[1].qElemNumber>>]

RECURSIVE Distinct(_)
\* first-encounter order of the values of a sequence
Distinct(s) ==
  IF s = << >> THEN << >>
  ELSE LET front == Distinct(SubSeq(s, 1, Len(s) - 1))
           x == s[Len(s)]
       IN IF Contains(front, x) THEN front ELSE Append(front, x)

----------------------------------------------------------------------------
(* initData: two dimensions, series order *)

ScanStart ==
  [p |-> << >>, q |-> << >>, r |-> << >>, edges |-> << >>,
   p1 |-> "", p2 |-> Undefined]

ScanRow(st, d) ==
  LET c2 == d[2].qText
      known == \E i \in 1..Len(st.edges) :
                 st.edges[i][1] = st.p2 /\ st.edges[i][2] = c2
  IN [p |-> IF Contains(st.p, d[1].qText) THEN st.p ELSE Append(st.p, d[1].qText),
      q |-> IF Contains(st.q, c2) THEN st.q ELSE Append(st.q, c2),
      r |-> IF Contains(st.q, c2) THEN st.r ELSE Append(st.r, cf(d)),
      edges |-> IF d[1].qText # st.p1 \/ known THEN st.edges
                ELSE Append(st.edges, <<st.p2, c2>>),
      p1 |-> d[1].qText,
      p2 |-> c2]

RECURSIVE ScanRows(_, _, _)
ScanRows(in, k, st) ==
  IF k > Len(in) THEN st ELSE ScanRows(in, k + 1, ScanRow(st, in[k]))

Scan(in) == ScanRows(in, 1, ScanStart)

\* toposort: the check of visit that throws 'Cyclic dependency'
CyclicNever(predecessors, node) == FALSE
Cyclic(predecessors, node) == Contains(predecessors, node)

RECURSIVE visit(_, _, _, _, _, _)
RECURSIVE visitOutgoing(_, _, _, _, _, _)
visit(st, nodes, edges, node, i, predecessors) ==
  IF st.thrown THEN st
  ELSE IF Cyclic(predecessors, node) THEN [st EXCEPT !.thrown = TRUE]
  ELSE IF i \in st.visited THEN st
  ELSE LET st1 == [st EXCEPT !.visited = @ \cup {i}]
           outgoing == SelectSeq(edges, LAMBDA e : e[1] = node)
           st2 == IF Len(outgoing) > 0
                  THEN visitOutgoing(st1, nodes, edges, outgoing,
                                     Len(outgoing), Append(predecessors, node))
                  ELSE st1
       IN IF st2.thrown THEN st2
          ELSE [st2 EXCEPT !.sorted[st2.cursor] = node, !.cursor = @ - 1]

visitOutgoing(st, nodes, edges, outgoing, k, preds) ==
  IF k = 0 \/ st.thrown THEN st
  ELSE LET child == outgoing[k][2]
       IN visitOutgoing(visit(st, nodes, edges, child, IndexOf(nodes, child), preds),
                        nodes, edges, outgoing, k - 1, preds)

RECURSIVE toposortFrom(_, _, _, _)
toposortFrom(st, nodes, edges, i) ==
  IF i = 0 \/ st.thrown THEN st
  ELSE toposortFrom(IF i \in st.visited THEN st
                    ELSE visit(st, nodes, edges, nodes[i], i, << >>),
                    nodes, edges, i - 1)

\* [thrown, sorted]: sorted is meaningful only when nothing was thrown
toposort(nodes, edges) ==
  toposortFrom([cursor |-> Len(nodes),
                sorted |-> [i \in 1..Len(nodes) |-> Undefined],
                visited |-> {},
                thrown |-> FALSE],
               nodes, edges, Len(nodes))

\* try { qs = toposort(q, edges) } catch (err) { qs = q }
SeriesOrderUnsorted(q, edges) == q
SeriesOrder(q, edges) ==
  LET t == toposort(q, edges) IN IF t.thrown THEN q ELSE t.sorted

\* r replicated in the order of qs, left alone when toposort threw
ColourOrder(q, r, edges) ==
  LET t == toposort(q, edges)
  IN IF t.thrown THEN r
     ELSE [i \in 1..Len(q) |-> r[IndexOf(q, t.sorted[i])]]

----------------------------------------------------------------------------
(* initData: two dimensions, grouping and stacking *)

\* d3.nest by first and second dimension, each node's values sorted in the
\* order of q and the nodes sorted in the order of p
NestEntries(in, p, q) ==
  [gi \in 1..Len(p) |->
     [key |-> p[gi],
      values |->
        LET present == SelectSeq(q, LAMBDA k :
                         \E i \in 1..Len(in) :
                           in[i][1].qText = p[gi] /\ in[i][2].qText = k)
        IN [si \in 1..Len(present) |->
              [key |-> present[si],
               values |-> SelectSeq(in, LAMBDA d :
                            d[1].qText = p[gi] /\ d[2].qText = present[si])]]]]

\* what the walk appends to v for a series the group lacks: num = 0,
\* txt = "-" and elm = [] are computed, v.push is in the other branch
MissingSlot(key) == << >>

\* the stack tops after a point of value num
NextPosTAll(posT, num) == NumAdd(posT, num)
NextPosT(posT, num) == IF NumLt(num, Num(0)) THEN posT ELSE NumAdd(posT, num)
NextNegT(negT, num) == IF NumLt(num, Num(0)) THEN NumAdd(negT, num) ELSE negT

\* the running total a point gets as its offset
OffsetOfWrong(num, posT, negT) == IF NumLt(num, Num(0)) THEN posT ELSE negT
OffsetOf(num, posT, negT) == IF NumLt(num, Num(0)) THEN negT ELSE posT

RECURSIVE WalkSeries(_, _, _, _, _)
\* st = [j, posT, negT, v]; j is 1-based
WalkSeries(d, q, i, st, nd) ==
  IF i > Len(q) THEN st
  ELSE IF Len(d.values) < st.j \/ d.values[st.j].key # q[i]
  THEN WalkSeries(d, q, i + 1, [st EXCEPT !.v = @ \o MissingSlot(q[i])], nd)
  ELSE LET row == d.values[st.j].values[1]
           raw == row[3].qNum
           num == IF IsFinite(raw) THEN raw ELSE Num(0)
           elm == IF nd = 2
                  THEN <<row[1].qElemNumber, row[2].qElemNumber>>
                  ELSE <<row[1].qElemNumber>>
           e == [dim2 |-> q[i], qNum |-> num, qText |-> row[3].qText,
                 qElemNumber |-> elm, offset |-> OffsetOf(num, st.posT, st.negT)]
       IN WalkSeries(d, q, i + 1,
                     [j |-> st.j + 1,
                      posT |-> NextPosT(st.posT, num),
                      negT |-> NextNegT(st.negT, num),
                      v |-> Append(st.v, e)],
                     nd)

\* the divisor of the normalization of a point
DivisorOfAbs(qNum, posT, negT) == NumAdd(posT, NumNeg(negT))
DivisorOf(qNum, posT, negT) ==
  IF NumLt(qNum, Num(0)) THEN NumNeg(negT) ELSE posT

\* v.forEach: dim1 is set and, when normalized, value and offset are divided
FinishPoint(e, key, norm, posT, negT) ==
  LET n == DivisorOf(e.qNum, posT, negT)
      qn == NumDiv(e.qNum, n)
  IN IF norm
     THEN [dim1 |-> key, dim2 |-> e.dim2, qNum |-> qn, qText |-> e.qText,
           qElemNumber |-> e.qElemNumber, offset |-> NumDiv(e.offset, n),
           qTextPct |-> FormatPct(qn)]
     ELSE [dim1 |-> key, dim2 |-> e.dim2, qNum |-> e.qNum, qText |-> e.qText,
           qElemNumber |-> e.qElemNumber, offset |-> e.offset,
           qTextPct |-> Undefined]

\* the group built from one node of the nest
GroupOf(d, q, norm, nd) ==
  LET w == WalkSeries(d, q, 1,
                      [j |-> 1, posT |-> Num(0), negT |-> Num(0), v |-> << >>], nd)
      v == [k \in 1..Len(w.v) |-> FinishPoint(w.v[k], d.key, norm, w.posT, w.negT)]
  IN [dim1 |-> d.key, offsetPos |-> w.posT, offsetNeg |-> w.negT, values |-> v]

\* the delta record of slot k of two adjacent groups
DeltaOfSwapped(p, c, k) ==
  [dim1p |-> p[k].dim1, dim1c |-> c[k].dim1, dim2 |-> p[k].dim2,
   delta |-> NumSub(p[k].qNum, c[k].qNum), deltaPct |-> 0,
   measureNumber |-> Undefined,
   points |-> <<p[k].offset, c[k].offset, p[k].qNum, c[k].qNum>>]
DeltaOf(p, c, k) ==
  [dim1p |-> p[k].dim1, dim1c |-> c[k].dim1, dim2 |-> p[k].dim2,
   delta |-> NumSub(c[k].qNum, p[k].qNum), deltaPct |-> 0,
   measureNumber |-> Undefined,
   points |-> <<p[k].offset, c[k].offset, p[k].qNum, c[k].qNum>>]

\* the deltas between a group's values c and its predecessor's values p
DeltasOf(p, c) ==
  LET ks == SelectSeq([k \in 1..Len(p) |-> k], LAMBDA k : k <= Len(c))
  IN [i \in 1..Len(ks) |-> DeltaOf(p, c, ks[i])]

RECURSIVE ConcatAll(_)
ConcatAll(ss) == IF ss = << >> THEN << >> ELSE Head(ss) \o ConcatAll(Tail(ss))

\* whether the loop over the groups collects deltas at group idx (1-based)
DeltasWanted(idx, sd) == idx > 1 /\ sd

\* the model of two-dimensional input: [data, flatData, allDim2, allCol2, deltas]
TwoDim(in, norm, sd, nd) ==
  LET sc == Scan(in)
      q == SeriesOrder(sc.q, sc.edges)
      n == NestEntries(in, sc.p, q)
      struc == [idx \in 1..Len(n) |-> GroupOf(n[idx], q, norm, nd)]
  IN [data |-> struc,
      flatData |-> ConcatAll([idx \in 1..Len(struc) |-> struc[idx].values]),
      allDim2 |-> q,
      allCol2 |-> ColourOrder(sc.q, sc.r, sc.edges),
      deltas |-> ConcatAll([idx \in 1..Len(struc) |->
                   IF DeltasWanted(idx, sd)
                   THEN DeltasOf(struc[idx - 1].values, struc[idx].values)
                   ELSE << >>])]

\* the model of one-dimensional input: [data, flatData, allDim2, allCol2]
OneDim(in) ==
  LET keys == Distinct([k \in 1..Len(in) |-> in[k][1].qText])
  IN [data |-> [k \in 1..Len(in) |-> OneDimGroup(in[k])],
      flatData |-> [k \in 1..Len(in) |-> OneDimPoint(in[k])],
      allDim2 |-> keys,
      allCol2 |-> [k \in 1..Len(keys) |-> 0]]

\* the two early returns of initData
Accepted(raw, nd, nm) == Len(raw) > 0 /\ nd + nm = Len(raw[1])

----------------------------------------------------------------------------
(* initData *)

\* the fields of g that initData writes
Model ==
  [data |-> data, flatData |-> flatData, allDim2 |-> allDim2,
   allCol2 |-> allCol2, nDims |-> nDims, deltas |-> deltas,
   normalized |-> normalized]

\* those fields of an object on which initData never ran
NoModel(norm) ==
  [data |-> << >>, flatData |-> << >>, allDim2 |-> << >>, allCol2 |-> << >>,
   nDims |-> 0, deltas |-> << >>, normalized |-> norm]

\* the fields after the one-dimension path built m
WithOneDim(old, m) ==
  [old EXCEPT !.nDims = 1, !.normalized = FALSE,
              !.data = m.data, !.flatData = m.flatData,
              !.allDim2 = m.allDim2, !.allCol2 = m.allCol2]

\* the fields after the two-dimension path built m
WithTwoDim(old, m) ==
  [old EXCEPT !.nDims = 2,
              !.data = m.data, !.flatData = m.flatData,
              !.allDim2 = m.allDim2, !.allCol2 = m.allCol2,
              !.deltas = m.deltas]

\* initData past its early returns, on the transformed rows in
ShapeRows(old, in, sd, nd) ==
  IF Len(in[1]) = 2
  THEN WithOneDim(old, OneDim(in))
  ELSE WithTwoDim(old, TwoDim(in, old.normalized, sd, nd))

\* the fields after initData ran on an object that had the fields old and
\* the properties rawData = raw, defDims = nd, defMeas = nm, measures = ms,
\* showDeltas = sd
initDataOn(old, raw, nd, nm, ms, sd) ==
  IF ~Accepted(raw, nd, nm) THEN old
  ELSE ShapeRows(old, InData(raw, nd, nm, ms), sd, nd)

\* the fields of g other than g.data become those of m
StoreShape(m) ==
  /\ flatData' = m.flatData
  /\ allDim2' = m.allDim2
  /\ allCol2' = m.allCol2
  /\ nDims' = m.nDims
  /\ deltas' = m.deltas
  /\ normalized' = m.normalized

\* the fields of g become those of m
Store(m) == data' = m.data /\ StoreShape(m)

\* g.initData() after g.normalized was norm and the other properties as given
initData(raw, nd, nm, ms, norm, sd) ==
  Store(initDataOn([Model EXCEPT !.normalized = norm], raw, nd, nm, ms, sd))

----------------------------------------------------------------------------
(* The shaper specification: an object whose properties were set, then     *)
(* initData                                                                *)

\* the deliveries of the shaper specification: matrices of the configured
\* shape and single rows of every shape
ShaperInputs(nd, nm) == MatricesOf(nd, nm, MaxPoints) \cup SingleRows

InitG(shapes, inputs) ==
  /\ \E sh \in shapes :
       /\ defDims = sh[1]
       /\ defMeas = sh[2]
       /\ measures = MeasuresOf(sh[1], sh[2])
       /\ rawData \in inputs[sh]
  /\ propNormalized \in BOOLEAN
  /\ normalized = propNormalized
  /\ showDeltas \in BOOLEAN
  /\ data = << >>
  /\ flatData = << >>
  /\ allDim2 = << >>
  /\ allCol2 = << >>
  /\ nDims = 0
  /\ deltas = << >>

Widths == {140, 240}

InitR ==
  /\ width = 140
  /\ svgWidth = 0
  /\ inThrottle = FALSE
  /\ timers = 0

\* a linear scale that was not created yet
NoLinear == [domain |-> <<NaN, NaN>>, range |-> <<NaN, NaN>>]
\* an ordinal scale that was not created yet
NoOrdinal ==
  [domain |-> << >>, range |-> << >>, rangeBand |-> NaN,
   extent |-> <<NaN, NaN>>, padding |-> NaN, outerPadding |-> NaN]

\* nothing is drawn, initChart never ran
InitC ==
  /\ max = NaN
  /\ min = NaN
  /\ mScale = NoLinear
  /\ dScale = NoOrdinal
  /\ bars = << >>
  /\ polys = << >>

\* the text properties of a chart whose texts are off
DefaultTextOpts ==
  [rotateLabel |-> FALSE, vAlign |-> "C", hAlign |-> "C",
   innerBarPadH |-> Num(0), innerBarPadV |-> Num(0), textDots |-> TRUE]

\* ellipseText and barText are not called
InitF ==
  /\ label = << >>
  /\ tref = << >>
  /\ maxLength = NaN
  /\ fitted = << >>
  /\ textOpts = DefaultTextOpts
  /\ plan = << >>
  /\ shown = << >>
  /\ charts = << >>
  /\ prefix = << >>
  /\ legend = << >>

\* the presentation properties of a chart as it is dropped on a sheet, but
\* for the texts, which are off
DefaultProps ==
  [orientation |-> "V", barGap |-> Frac(1, 5), outerGap |-> Frac(1, 5),
   gridHeight |-> Num(1), showTexts |-> "N"]

Init ==
  /\ pc = "created"
  /\ InitG(Shapes, [sh \in Shapes |-> ShaperInputs(sh[1], sh[2])])
  /\ InitR
  /\ props = DefaultProps
  /\ InitC
  /\ InitF

Shape ==
  /\ pc = "created"
  /\ pc' = "shaped"
  /\ initData(rawData, defDims, defMeas, measures, normalized, showDeltas)
  /\ UNCHANGED <<rawData, defDims, defMeas, measures, propNormalized, showDeltas,
                 rvars, props, cvars, fvars>>

Next == Shape

Spec == Init /\ [][Next]_vars

----------------------------------------------------------------------------
(* initChart: the scales.  The chart has labelTitleD = labelTitleM = "N"   *)
(* and no legend, so that the margins are those of the paddings alone.     *)

\* g.height
Height == 130
\* margin of initChart without axes, titles and legend
margin == [top |-> 10, right |-> 20, bottom |-> 20, left |-> 20]
innerWidth(w) == Num(w - margin.left - margin.right)
innerHeight == Num(Height - margin.top - margin.bottom)

\* d3.max and d3.min of numbers: NaN is skipped, the result is undefined
\* (here NaN, what domain() makes of undefined) when no number is left
RECURSIVE d3max(_)
d3max(xs) ==
  IF xs = << >> THEN NaN
  ELSE IF IsNaN(Head(xs)) THEN d3max(Tail(xs))
  ELSE IF NumLt(Head(xs), d3max(Tail(xs))) THEN d3max(Tail(xs))
  ELSE Head(xs)
RECURSIVE d3min(_)
d3min(xs) ==
  IF xs = << >> THEN NaN
  ELSE IF IsNaN(Head(xs)) THEN d3min(Tail(xs))
  ELSE IF NumLt(d3min(Tail(xs)), Head(xs)) THEN d3min(Tail(xs))
  ELSE Head(xs)

\* d.values.forEach of the accessors of g.max and g.min
RECURSIVE maxOffset(_, _)
maxOffset(values, m) ==
  IF values = << >> THEN m
  ELSE maxOffset(Tail(values),
                 IF NumLt(m, Head(values).offset) THEN Head(values).offset ELSE m)
RECURSIVE minOffset(_, _)
minOffset(values, m) ==
  IF values = << >> THEN m
  ELSE minOffset(Tail(values),
                 IF NumLt(Head(values).offset, m) THEN Head(values).offset ELSE m)

\* the accessors of g.max and g.min for the group d
maxOf(d, norm, gridHeight) ==
  IF norm
  THEN (IF Truthy(d.offsetPos) /\ NumLt(Num(0), d.offsetPos) THEN gridHeight ELSE Num(0))
  ELSE NumMul(maxOffset(d.values, MathMax(Num(0), d.offsetPos)), gridHeight)
minOf(d, norm, gridHeight) ==
  IF norm
  THEN (IF Truthy(d.offsetNeg) /\ NumLt(d.offsetNeg, Num(0))
        THEN NumNeg(gridHeight) ELSE Num(0))
  ELSE NumMul(minOffset(d.values, MathMin(Num(0), d.offsetNeg)), gridHeight)

\* g.max and g.min of the groups dat
maxOfData(dat, norm, gridHeight) ==
  d3max([i \in 1..Len(dat) |-> maxOf(dat[i], norm, gridHeight)])
minOfData(dat, norm, gridHeight) ==
  d3min([i \in 1..Len(dat) |-> minOf(dat[i], norm, gridHeight)])

RECURSIVE Pow10Floor(_, _)
\* Math.pow(10, Math.floor(Math.log(x) / Math.LN10)) for a finite x > 0,
\* searched from the power p
Pow10Floor(x, p) ==
  IF NumLt(x, p) THEN Pow10Floor(x, NumDiv(p, Num(10)))
  ELSE IF ~NumLt(x, NumMul(p, Num(10))) THEN Pow10Floor(x, NumMul(p, Num(10)))
  ELSE p

\* the correction of the tick step by err
tickStepBy(step, err) ==
  IF ~NumLt(Frac(15, 100), err) THEN NumMul(step, Num(10))
  ELSE IF ~NumLt(Frac(35, 100), err) THEN NumMul(step, Num(5))
  ELSE IF ~NumLt(Frac(75, 100), err) THEN NumMul(step, Num(2))
  ELSE step

\* the correction of the tick step by err = m / span * step, m = 10
tickStepOf(span, step) ==
  CHOOSE r \in {tickStepBy(st, NumMul(NumDiv(Num(10), span), st)) :
                  st \in {step}} : TRUE

\* d3_scale_linearTickRange(domain, 10)[2] for a domain of the given span:
\* 0 for the span 0, the span itself when it is not finite
tickStep(span) ==
  IF ~IsFinite(span) THEN span
  ELSE IF span = Num(0) THEN Num(0)
  ELSE tickStepOf(span, Pow10Floor(NumDiv(span, Num(10)), Num(1)))

\* the span of d3_scaleExtent(domain)
extentSpan(domain) ==
  IF NumLt(domain[1], domain[2]) THEN NumSub(domain[2], domain[1])
  ELSE NumSub(domain[1], domain[2])

niceFloor(x, step) == NumMul(MathFloor(NumDiv(x, step)), step)
niceCeil(x, step) == NumMul(MathCeil(NumDiv(x, step)), step)

\* d3_scale_nice with d3_scale_niceStep(step): the identity for a step
\* that is 0 or NaN
niceWith(domain, step) ==
  IF ~Truthy(step) THEN domain
  ELSE IF NumLt(domain[2], domain[1])
  THEN <<niceCeil(domain[1], step), niceFloor(domain[2], step)>>
  ELSE <<niceFloor(domain[1], step), niceCeil(domain[2], step)>>

niceOnce(domain) ==
  CHOOSE r \in {niceWith(domain, step) :
                  step \in {tickStep(extentSpan(domain))}} : TRUE

\* scale.nice() of a linear scale: d3_scale_linearNice extends twice
nice(domain) == CHOOSE r \in {niceOnce(d) : d \in {niceOnce(domain)}} : TRUE

\* d3_interpolateNumber(a, b)(t)
interpolate(range, t) ==
  NumAdd(NumMul(range[1], NumSub(Num(1), t)), NumMul(range[2], t))

\* d3_uninterpolateNumber(a, b)(x): b - a is replaced by 1 / (b - a) when
\* it is 0
uninterpolate(domain, x) ==
  IF NumSub(domain[2], domain[1]) = Num(0)
  THEN NumDiv(NumSub(x, domain[1]), NumDiv(Num(1), Num(0)))
  ELSE NumDiv(NumSub(x, domain[1]), NumSub(domain[2], domain[1]))

\* the linear scale ms applied to x
ScaleOf(ms, x) == interpolate(ms.range, uninterpolate(ms.domain, x))

\* the domain of g.dScale: the dim1 of the groups, reversed when
\* horizontal; an ordinal scale keeps the first of equal values
Reverse(s) == [i \in 1..Len(s) |-> s[Len(s) + 1 - i]]
dim1Of(dat, orientation) ==
  IF orientation = "H"
  THEN Distinct(Reverse([i \in 1..Len(dat) |-> dat[i].dim1]))
  ELSE Distinct([i \in 1..Len(dat) |-> dat[i].dim1])

\* rangeRoundBands once start, stop and step are known
bandsOf(dom, x, padding, outerPadding, reverse, start, stop, step) ==
  [domain |-> dom,
   range |->
     IF reverse
     THEN Reverse([i \in 1..Len(dom) |->
            NumAdd(NumAdd(start, MathRound(NumDiv(
                     NumSub(NumSub(stop, start),
                            NumMul(NumSub(Num(Len(dom)), padding), step)),
                     Num(2)))),
                   NumMul(step, Num(i - 1)))])
     ELSE [i \in 1..Len(dom) |->
            NumAdd(NumAdd(start, MathRound(NumDiv(
                     NumSub(NumSub(stop, start),
                            NumMul(NumSub(Num(Len(dom)), padding), step)),
                     Num(2)))),
                   NumMul(step, Num(i - 1)))],
   rangeBand |-> MathRound(NumMul(step, NumSub(Num(1), padding))),
   extent |-> x, padding |-> padding, outerPadding |-> outerPadding]

\* rangeRoundBands once start and stop are known
bandsFrom(dom, x, padding, outerPadding, reverse, start, stop) ==
  CHOOSE r \in
    {bandsOf(dom, x, padding, outerPadding, reverse, start, stop, step) :
       step \in {MathFloor(NumDiv(NumSub(stop, start),
                                  NumAdd(NumSub(Num(Len(dom)), padding),
                                         NumMul(Num(2), outerPadding))))}} : TRUE

\* d3.scale.ordinal().domain(dom).rangeRoundBands(x, padding, outerPadding)
rangeRoundBands(dom, x, padding, outerPadding) ==
  IF NumLt(x[2], x[1])
  THEN bandsFrom(dom, x, padding, outerPadding, TRUE, x[2], x[1])
  ELSE bandsFrom(dom, x, padding, outerPadding, FALSE, x[1], x[2])

\* the ordinal scale ds applied to key: undefined (NaN) for an unknown key
BandOf(ds, key) ==
  IF IndexOf(ds.domain, key) = 0 THEN NaN ELSE ds.range[IndexOf(ds.domain, key)]

----------------------------------------------------------------------------
(* initChart, createBars and updateBars on a scene: the record of g.data,  *)
(* g.max, g.min, the two scales and the attributes of what is drawn        *)

\* the scene of this state with the groups dat
Scene(dat) ==
  [data |-> dat, max |-> max, min |-> min, mScale |-> mScale,
   dScale |-> dScale, bars |-> bars, polys |-> polys]

\* initChart once g.min = mn and g.max = mx are known
initChartWith(S, p, w, mn, mx) ==
  [S EXCEPT
     !.bars = << >>,
     !.polys = << >>,
     !.max = mx,
     !.min = mn,
     !.mScale = [domain |-> nice(<<mn, mx>>),
                 range |-> IF p.orientation = "V"
                           THEN <<innerHeight, Num(0)>>
                           ELSE <<Num(0), innerWidth(w)>>],
     !.dScale = rangeRoundBands(dim1Of(S.data, p.orientation),
                                IF p.orientation = "V"
                                THEN <<Num(0), innerWidth(w)>>
                                ELSE <<innerHeight, Num(0)>>,
                                p.barGap, p.outerGap)]

\* initChart: everything drawn is removed, g.max and g.min are taken from
\* the groups, the numeric scale is niced
initChartOn(S, norm, p, w) ==
  CHOOSE T \in
    {initChartWith(S, p, w, mn, mx) :
       mn \in {minOfData(S.data, norm, p.gridHeight)},
       mx \in {maxOfData(S.data, norm, p.gridHeight)}} : TRUE

\* initChart when g.data is undefined: it throws at g.data.map, after it
\* removed everything drawn
initChartThrown(S) == [S EXCEPT !.bars = << >>, !.polys = << >>]

\* d3.format(",.g") on a total: the digits of the number. The totals are
\* sums of the whole values of the rows; they are formatted only when the
\* chart is not normalized
TotalText(x) == IF IsNaN(x) THEN "NaN" ELSE ToString(x.n)

\* the each() of g.totalsPos on the group d: it assigns d.qNum and d.qText
totalPos(d, minMax) ==
  IF NumLt(Num(0), minMax[2])
  THEN [dim1 |-> d.dim1, offsetPos |-> d.offsetPos, offsetNeg |-> d.offsetNeg,
        values |-> d.values,
        qNum |-> NumSub(minMax[2], d.offsetPos), qText |-> TotalText(d.offsetPos)]
  ELSE d

\* the each() of g.totalsNeg, which runs after that of g.totalsPos
totalNeg(d, e, minMax) ==
  IF NumLt(minMax[1], Num(0))
  THEN [dim1 |-> d.dim1, offsetPos |-> d.offsetPos, offsetNeg |-> d.offsetNeg,
        values |-> d.values,
        qNum |-> NumSub(minMax[1], d.offsetNeg), qText |-> TotalText(d.offsetNeg)]
  ELSE e

totalOf(d, minMax) == totalNeg(d, totalPos(d, minMax), minMax)

\* selection.data(values, key): a datum whose key an earlier datum has
\* joins no element
FirstOfKey(keys, i) == \A j \in 1..(i - 1) : keys[j] # keys[i]

RECURSIVE joinedFrom(_, _, _)
\* the data from index i on that join an element
joinedFrom(ds, keys, i) ==
  IF i > Len(ds) THEN << >>
  ELSE IF FirstOfKey(keys, i) THEN <<ds[i]>> \o joinedFrom(ds, keys, i + 1)
  ELSE joinedFrom(ds, keys, i + 1)

\* the groups after the totals, joined by dim1, were created and updated
totalsOf(dat, minMax, showTexts, norm) ==
  IF showTexts \in {"T", "A"} /\ ~norm
  THEN [i \in 1..Len(dat) |->
          IF FirstOfKey([j \in 1..Len(dat) |-> dat[j].dim1], i)
          THEN totalOf(dat[i], minMax) ELSE dat[i]]
  ELSE dat

\* x, y, width, height of a rect on the band at pos, at is what
\* g.mScale(offset) - (g.mScale(0) - g.mScale(Math.max or min(0, num))) + 0.5
\* is and length what Math.abs(g.mScale(0) - g.mScale(num)) - 1 is
barAt(pos, rangeBand, orientation, at, length) ==
  IF orientation = "V"
  THEN [x |-> IF Truthy(pos) THEN pos ELSE Num(0),
        y |-> at,
        width |-> IF Truthy(rangeBand) /\ NumLt(Num(0), rangeBand)
                  THEN rangeBand ELSE Num(0),
        height |-> IF NumLt(Num(0), length) THEN length ELSE Num(0)]
  ELSE [x |-> at, y |-> pos, width |-> length, height |-> rangeBand]

\* the rect of a point drawn from the zero line, whatever its offset
barOfUnstacked(num, offset, pos, rangeBand, ms, orientation) ==
  CHOOSE b \in
    {barAt(pos, rangeBand, orientation,
           NumAdd(NumSub(zero, NumSub(zero, edge)), Frac(1, 2)),
           NumSub(MathAbs(NumSub(zero, ScaleOf(ms, num))), Num(1))) :
       zero \in {ScaleOf(ms, Num(0))},
       edge \in {ScaleOf(ms, IF orientation = "V" THEN MathMax(Num(0), num)
                                                    ELSE MathMin(Num(0), num))}} :
    TRUE
\* x, y, width, height that updateBars gives the rect of a point of value
\* num at offset (both made finite), on the band at pos
barOf(num, offset, pos, rangeBand, ms, orientation) ==
  CHOOSE b \in
    {barAt(pos, rangeBand, orientation,
           NumAdd(NumSub(ScaleOf(ms, offset), NumSub(zero, edge)), Frac(1, 2)),
           NumSub(MathAbs(NumSub(zero, ScaleOf(ms, num))), Num(1))) :
       zero \in {ScaleOf(ms, Num(0))},
       edge \in {ScaleOf(ms, IF orientation = "V" THEN MathMax(Num(0), num)
                                                    ELSE MathMin(Num(0), num))}} :
    TRUE

barAttrs(e, ms, ds, orientation) ==
  barOf(IF IsFinite(e.qNum) THEN e.qNum ELSE Num(0),
        IF IsFinite(e.offset) THEN e.offset ELSE Num(0),
        BandOf(ds, e.dim1), ds.rangeBand, ms, orientation)

\* the points attribute of the polygon of the delta datum: the sequence
\* x1, y1, x2, y2, x3, y3, x4, y4 of its four corners
polyPoints(datum, ms, ds, orientation) ==
  IF orientation = "V"
  THEN <<NumAdd(BandOf(ds, datum.dim1p), ds.rangeBand),
         NumSub(ScaleOf(ms, datum.points[1]),
                NumSub(ScaleOf(ms, Num(0)), ScaleOf(ms, datum.points[3]))),
         NumAdd(BandOf(ds, datum.dim1p), ds.rangeBand),
         ScaleOf(ms, datum.points[1]),
         BandOf(ds, datum.dim1c),
         ScaleOf(ms, datum.points[2]),
         BandOf(ds, datum.dim1c),
         NumSub(ScaleOf(ms, datum.points[2]),
                NumSub(ScaleOf(ms, Num(0)), ScaleOf(ms, datum.points[4])))>>
  ELSE <<ScaleOf(ms, NumAdd(datum.points[1], datum.points[3])),
         NumAdd(BandOf(ds, datum.dim1p), ds.rangeBand),
         ScaleOf(ms, datum.points[1]),
         NumAdd(BandOf(ds, datum.dim1p), ds.rangeBand),
         ScaleOf(ms, datum.points[2]),
         BandOf(ds, datum.dim1c),
         ScaleOf(ms, NumAdd(datum.points[2], datum.points[4])),
         BandOf(ds, datum.dim1c)>>

\* the text barText returns when its alignment part left it with txt
barTextOf(txt, barGap) == IF barGap = Num(1) THEN "" ELSE txt

\* the polygons of the deltas dl, joined by dim1p, dim1c and dim2
polysOf(dl, ms, ds, orientation) ==
  [k \in 1..Len(dl) |-> polyPoints(dl[k], ms, ds, orientation)]

deltaKeys(dl) == [k \in 1..Len(dl) |-> <<dl[k].dim1p, dl[k].dim1c, dl[k].dim2>>]

\* updateBars once the two scales have their domains: the bars follow
\* g.flatData, the polygons g.deltas when deltas are shown, the totals
\* write into the groups
drawOn(S, ms, ds, m, sd, p) ==
  [S EXCEPT
     !.mScale = ms,
     !.dScale = ds,
     !.data = totalsOf(S.data, ms.domain, p.showTexts, m.normalized),
     !.bars = [k \in 1..Len(m.flatData) |->
                 barAttrs(m.flatData[k], ms, ds, p.orientation)],
     !.polys = IF sd /\ m.nDims = 2
               THEN polysOf(joinedFrom(m.deltas, deltaKeys(m.deltas), 1),
                            ms, ds, p.orientation)
               ELSE S.polys]

\* updateBars on the model m: g.dScale gets the dim1 of the groups as its
\* domain and lays its bands out again, g.mScale gets the domain
\* [g.min, g.max]
updateBarsOn(S, m, sd, p) ==
  CHOOSE T \in
    {drawOn(S, ms, ds, m, sd, p) :
       ms \in {[S.mScale EXCEPT !.domain = <<S.min, S.max>>]},
       ds \in {rangeRoundBands(dim1Of(S.data, p.orientation), S.dScale.extent,
                               S.dScale.padding, S.dScale.outerPadding)}} : TRUE

----------------------------------------------------------------------------
(* The life cycle of one chart: link, the watches, paint, the timer *)

LifeShapes == {<<1, 1>>, <<2, 1>>}
LifeQNums == {Num(1)}
LifeCells == {MeasCell(v) : v \in LifeQNums}
LifeDim2Cells == {DimCell(Dim2Keys, 1)}

LifeRowsOf(nd) ==
  IF nd = 1 THEN {<<c, m>> : c \in Dim1Cells, m \in LifeCells}
  ELSE {<<c1, c2, m>> : c1 \in Dim1Cells, c2 \in LifeDim2Cells, m \in LifeCells}

\* the rows of m go up in the element number of the first dimension
Ascending(m) ==
  \A i \in 1..Len(m) : \A j \in (i + 1)..Len(m) :
    m[i][1].qElemNumber < m[j][1].qElemNumber

\* the matrices the host delivers in the life-cycle specification: rows of
\* distinct dimension values in the order of the values
LifeMatrices ==
  UNION {UNION {{m \in [1..k -> LifeRowsOf(sh[1])] : Ascending(m)} :
                  k \in 0..MaxLifePoints} : sh \in LifeShapes}
LifeInputs(nd, nm) == LifeMatrices

\* refreshChart with the flag thr, t pending timers and g.data defined or
\* not: initChart throws on g.data.map when g.data is undefined
refreshChart(thr, t, defined) ==
  IF thr
  THEN [inThrottle |-> thr, timers |-> t, ran |-> FALSE, threw |-> FALSE]
  ELSE IF ~defined
  THEN [inThrottle |-> FALSE, timers |-> t, ran |-> TRUE, threw |-> TRUE]
  ELSE [inThrottle |-> TRUE, timers |-> t + 1, ran |-> TRUE, threw |-> FALSE]

\* what is on the screen after a refreshChart call made with the flag thr
\* and the width w, on the scene S and the model m
refreshedScene(S, m, sd, p, w, thr) ==
  IF thr THEN S
  ELSE IF m.nDims = 0 THEN initChartThrown(S)
  ELSE CHOOSE U \in {updateBarsOn(T, m, sd, p) :
                       T \in {initChartOn(S, m.normalized, p, w)}} : TRUE

\* g.data and what is drawn become those of the scene S
SetScene(S) ==
  /\ data' = S.data
  /\ max' = S.max
  /\ min' = S.min
  /\ mScale' = S.mScale
  /\ dScale' = S.dScale
  /\ bars' = S.bars
  /\ polys' = S.polys

\* the flag, the timers and the svg after the refreshChart call r
SetThrottle(r, w) ==
  /\ inThrottle' = r.inThrottle
  /\ timers' = r.timers
  /\ svgWidth' = IF r.ran THEN w ELSE svgWidth

\* the effect of a refreshChart call made with the width w on the scene S
\* and the model m
Refresh(w, S, m, sd, p) ==
  /\ \E r \in {refreshChart(inThrottle, timers, m.nDims # 0)} : SetThrottle(r, w)
  /\ \E T \in {refreshedScene(S, m, sd, p, w, inThrottle)} : SetScene(T)

InitLife ==
  /\ pc = "created"
  /\ InitG(LifeShapes, [sh \in LifeShapes |-> LifeInputs(sh[1], sh[2])])
  /\ InitR
  /\ props = DefaultProps
  /\ InitC
  /\ InitF

\* initData then refreshChart, as link and paint call them
ShapeAndRefresh(m, sd, p) ==
  /\ StoreShape(m)
  /\ \E S \in {Scene(m.data)} : Refresh(width, S, m, sd, p)

\* link: initData, refreshChart, then the watches are registered
Link ==
  /\ pc = "created"
  /\ \E m \in {initDataOn(Model, rawData, defDims, defMeas, measures,
                            showDeltas)} :
       ShapeAndRefresh(m, showDeltas, props)
  /\ pc' = IF nDims' # 0 THEN "linked" ELSE "failed"
  /\ UNCHANGED <<rawData, defDims, defMeas, measures, propNormalized, showDeltas,
                 width, props, fvars>>

\* the listener of the data watch on the delivery raw, m being what
\* initData made of it: g.rawData = newValue; initData; updateBars;
\* refreshChart
dataWatchOn(raw, m, sd, p) ==
  /\ rawData' = raw
  /\ StoreShape(m)
  /\ \E S \in {updateBarsOn(Scene(m.data), m, sd, p)} :
       Refresh(width, S, m, sd, p)

\* the data watch on a delivery out of inputs
DataWatchOf(inputs) ==
  /\ pc = "linked"
  /\ \E raw \in inputs :
       /\ raw # rawData
       /\ \E m \in {initDataOn(Model, raw, defDims, defMeas, measures,
                                 showDeltas)} :
            dataWatchOn(raw, m, showDeltas, props)
  /\ UNCHANGED <<pc, defDims, defMeas, measures, propNormalized, showDeltas,
                 width, props, fvars>>

DataWatch == DataWatchOf(LifeMatrices)

\* the resize watch: g.width and g.height are set; refreshChart
ResizeWatch ==
  /\ pc = "linked"
  /\ \E w \in Widths :
       /\ w # width
       /\ width' = w
       /\ \E S \in {Scene(data)}, m \in {Model} :
            Refresh(w, S, m, showDeltas, props)
  /\ UNCHANGED <<pc, rawData, defDims, defMeas, measures, normalized,
                 propNormalized, showDeltas, flatData, allDim2, allCol2, nDims,
                 deltas, props, fvars>>

\* the watch of the colour schemas: refreshChart
ColorWatch ==
  /\ pc = "linked"
  /\ \E S \in {Scene(data)}, m \in {Model} :
       Refresh(width, S, m, showDeltas, props)
  /\ UNCHANGED <<pc, rawData, defDims, defMeas, measures, normalized,
                 propNormalized, showDeltas, flatData, allDim2, allCol2, nDims,
                 deltas, width, props, fvars>>

\* paint in edit mode (no other paint does anything): initProps with the
\* properties of the layout, initData, refreshChart.  The presentation
\* properties of the layout are those the chart has.
Paint ==
  /\ pc \in {"linked", "failed"}
  /\ \E sh \in LifeShapes, norm \in BOOLEAN, sd \in BOOLEAN :
       /\ defDims' = sh[1]
       /\ defMeas' = sh[2]
       /\ measures' = MeasuresOf(sh[1], sh[2])
       /\ showDeltas' = sd
       /\ propNormalized' = norm
       /\ \E m \in {initDataOn([Model EXCEPT !.normalized = norm], rawData,
                                 sh[1], sh[2], MeasuresOf(sh[1], sh[2]), sd)} :
            ShapeAndRefresh(m, sd, props)
  /\ UNCHANGED <<pc, rawData, width, props, fvars>>

\* the callback of setTimeout(() => inThrottle = false, 0)
TimerFire ==
  /\ timers > 0
  /\ timers' = timers - 1
  /\ inThrottle' = FALSE
  /\ UNCHANGED <<pc, gvars, width, svgWidth, props, cvars, fvars>>

\* deliveries and property changes of a chart that is not resized
NextLife == Link \/ DataWatch \/ Paint \/ TimerFire

SpecLife == InitLife /\ [][NextLife]_vars

\* resizes and colour changes of a chart whose data stay as linked
NextRefresh == Link \/ ResizeWatch \/ ColorWatch \/ TimerFire

SpecRefresh == InitLife /\ [][NextRefresh]_vars

----------------------------------------------------------------------------
(* The chart specification: charts of every orientation and spacing are    *)
(* linked and refreshed                                                    *)

MaxChartPoints == 2
ChartShapes == {<<1, 1>>, <<2, 1>>}

\* the deliveries of the chart specification: matrices of the configured
\* shape and its single rows, null measure cells included
ChartInputs(nd, nm) ==
  MatricesOf(nd, nm, MaxChartPoints)
    \cup {<<row>> : row \in RowsOf(nd, nm, NullableCells)}

\* the property panel: barSpacing and outerGap between 0 and 1, gridHeight
\* above 0, the texts off or all on
ChartProps ==
  [orientation : {"V", "H"},
   barGap : {Frac(1, 2), Num(1)},
   outerGap : {Num(0), Frac(1, 2)},
   gridHeight : {Num(1), Frac(5, 4)},
   showTexts : {"N", "A"}]

InitChart ==
  /\ pc = "created"
  /\ InitG(ChartShapes, [sh \in ChartShapes |-> ChartInputs(sh[1], sh[2])])
  /\ InitR
  /\ props \in ChartProps
  /\ InitC
  /\ InitF

NextChart == Link \/ ColorWatch \/ TimerFire

SpecChart == InitChart /\ [][NextChart]_vars

----------------------------------------------------------------------------
(* The watch specification: a linked chart receives deliveries whose       *)
(* values, and so whose numeric domain, differ                             *)

MaxWatchPoints == 1
WatchShapes == {<<1, 1>>, <<2, 1>>}

\* the deliveries of the watch specification: matrices of the configured
\* shape
WatchInputs(nd, nm) == MatricesOf(nd, nm, MaxWatchPoints)

InitWatch ==
  /\ pc = "created"
  /\ InitG(WatchShapes, [sh \in WatchShapes |-> WatchInputs(sh[1], sh[2])])
  /\ InitR
  /\ props = DefaultProps
  /\ InitC
  /\ InitF

Delivery == DataWatchOf(WatchInputs(defDims, defMeas))

NextWatch == Link \/ Delivery \/ TimerFire

SpecWatch == InitWatch /\ [][NextWatch]_vars

----------------------------------------------------------------------------
(* barText.ellipseText: a text is a sequence of glyphs, its computed       *)
(* length the sum of their advances                                        *)

\* U+2026
ellipsis == "..."
Glyphs == {"a", "W", ".", "-", ellipsis}
\* the advance of a glyph at the font size of g.tref
Advance(c) ==
  CASE c = "W" -> 3
    [] c \in {"a", ellipsis} -> 2
    [] OTHER -> 1

RECURSIVE getComputedTextLength(_)
getComputedTextLength(t) ==
  IF t = << >> THEN 0 ELSE Advance(Head(t)) + getComputedTextLength(Tail(t))

\* txt.slice(0, -1)
Slice1(txt) == SubSeq(txt, 1, Len(txt) - 1)

RECURSIVE stripDots(_)
\* the inner loop: trailing . and - are removed
stripDots(txt) ==
  IF Len(txt) > 0 /\ txt[Len(txt)] \in {".", "-"}
  THEN stripDots(Slice1(txt)) ELSE txt

\* textLength after g.tref.text(txt + ellipsis)
Remeasure(txt) == Num(getComputedTextLength(txt \o <<ellipsis>>))

RECURSIVE ellipseLoop(_, _, _, _)
RECURSIVE ellipseStep(_, _)
\* the while loop of ellipseText from txt, the text tr of g.tref and
\* textLength on: txt and the text of g.tref when it ends
ellipseLoop(txt, tr, textLength, maxLen) ==
  IF NumLt(maxLen, textLength) /\ Len(txt) > 0
  THEN ellipseStep(stripDots(Slice1(txt)), maxLen)
  ELSE [txt |-> txt, tref |-> tr]
\* one pass of the loop cut txt down to cut
ellipseStep(cut, maxLen) ==
  ellipseLoop(cut, cut \o <<ellipsis>>, Remeasure(cut), maxLen)

\* what ellipseText returns after its loop ended as r
ellipseReturnMarked(r) == IF Len(r.txt) # 0 THEN r.txt \o <<ellipsis>> ELSE r.txt
ellipseReturn(r) == IF Len(r.txt) # 0 THEN r.tref ELSE r.txt

\* ellipseText(g, maxLength) with t the text of g.tref: what the loop ends
\* with
ellipseText(t, maxLen) ==
  ellipseLoop(t, t, Num(getComputedTextLength(t)), maxLen)

MaxText == 3
MaxCalls == 2
Texts == UNION {[1..n -> Glyphs] : n \in 0..MaxText}
\* widths a bar leaves for its label: none, some, plenty, and what the
\* arithmetic of barText makes of a negative or undefined bar width
MaxLengths == {NaN, Num(-1), Num(0), Num(2), Num(3), Num(4), Num(5), Num(7)}

InitFit ==
  /\ pc = "created"
  /\ InitG({<<1, 1>>}, [sh \in {<<1, 1>>} |-> {<< >>}])
  /\ propNormalized = FALSE
  /\ showDeltas = FALSE
  /\ InitR
  /\ props = DefaultProps
  /\ InitC
  /\ label \in Texts
  /\ tref = << >>
  /\ maxLength \in MaxLengths
  /\ fitted = << >>
  /\ textOpts = DefaultTextOpts
  /\ plan = << >>
  /\ shown = << >>
  /\ charts = << >>
  /\ prefix = << >>
  /\ legend = << >>

\* g.tref.text(t) then ellipseText(g, maxLength)
fitOn(r) ==
  /\ tref' = r.tref
  /\ fitted' = Append(fitted, ellipseReturn(r))

\* barText fits the label, then what the last call returned
Fit ==
  /\ Len(fitted) < MaxCalls
  /\ fitOn(ellipseText(IF fitted = << >> THEN label ELSE fitted[Len(fitted)],
                       maxLength))
  /\ UNCHANGED <<pc, gvars, rvars, props, cvars, label, maxLength, textOpts,
                 plan, shown, charts, prefix,
                 legend>>

NextFit == Fit

SpecFit == InitFit /\ [][NextFit]_vars

----------------------------------------------------------------------------
(* The truncation of the tick labels of the axes and of the legend items  *)

RECURSIVE truncateLoop(_, _, _, _)
\* the while loop of the each() of the tick labels and of the legend items,
\* from text, the text self of the element and textLength on: the text the
\* element shows when it ends
truncateLoop(text, self, textLength, maxWidth) ==
  IF NumLt(maxWidth, textLength) /\ Len(text) > 0
  THEN truncateLoop(Slice1(text), Slice1(text) \o <<ellipsis>>,
                    Remeasure(Slice1(text)), maxWidth)
  ELSE self

\* the text an element with the text t shows after the each()
truncate(t, maxWidth) ==
  truncateLoop(t, t, Num(getComputedTextLength(t)), maxWidth)

\* updateAxis: a horizontal or tilted tick label with the text label is
\* cut to maxWidth
TickLabel ==
  /\ shown = << >>
  /\ shown' = <<[of |-> "tick", text |-> truncate(label, maxLength)]>>
  /\ UNCHANGED <<pc, gvars, rvars, props, cvars, label, tref, maxLength,
                 fitted, textOpts, plan, charts, prefix,
                 legend>>

\* updateBars: a legend item with the text label is cut to g.lgn.txtWidth
LegendItem ==
  /\ shown = << >>
  /\ shown' = <<[of |-> "legend", text |-> truncate(label, maxLength)]>>
  /\ UNCHANGED <<pc, gvars, rvars, props, cvars, label, tref, maxLength,
                 fitted, textOpts, plan, charts, prefix,
                 legend>>

\* a text is fitted into a bar and truncated on an axis or in the legend,
\* with the same width
NextTruncate == Fit \/ TickLabel \/ LegendItem

SpecTruncate == InitFit /\ [][NextTruncate]_vars

----------------------------------------------------------------------------
(* Several charts on one sheet: every directive creates its own object    *)
(* from ldwBarsPlus, the module variable inThrottle is one for all.  A    *)
(* refreshChart call is followed step by step; handlers and timeouts run  *)
(* to completion, one at a time.                                          *)

MaxCharts == 2
MaxRefreshCalls == 2

\* the objects: whether g.data is defined (initData accepted the rows)
ChartObjects ==
  [1..MaxCharts ->
     [at : {"idle"}, defined : BOOLEAN, calls : {0}, runs : {0}, pending : {0},
      last : {"none"}]]

InitCharts ==
  /\ pc = "created"
  /\ InitG({<<1, 1>>}, [sh \in {<<1, 1>>} |-> {<< >>}])
  /\ propNormalized = FALSE
  /\ showDeltas = FALSE
  /\ InitR
  /\ props = DefaultProps
  /\ InitC
  /\ label = << >>
  /\ tref = << >>
  /\ maxLength = NaN
  /\ fitted = << >>
  /\ textOpts = DefaultTextOpts
  /\ plan = << >>
  /\ shown = << >>
  /\ charts \in ChartObjects
  /\ prefix = << >>
  /\ legend = << >>

\* no handler is executing
AllIdle == \A i \in 1..Len(charts) : charts[i].at = "idle"

\* inThrottle after the catch clause
caughtKept(flag) == flag
caught(flag) == FALSE

\* refreshChart is called on the chart i: refreshData does nothing when
\* inThrottle is set, sets it and starts the pipeline otherwise
Enter(i) ==
  /\ AllIdle
  /\ charts[i].calls < MaxRefreshCalls
  /\ charts' = [charts EXCEPT
       ![i].calls = @ + 1,
       ![i].at = IF inThrottle THEN "idle" ELSE "running",
       ![i].runs = IF inThrottle THEN @ ELSE @ + 1,
       ![i].last = IF inThrottle THEN "skipped" ELSE @]
  /\ inThrottle' = TRUE
  /\ UNCHANGED <<pc, gvars, width, svgWidth, timers, props, cvars, label, tref,
                 maxLength, fitted, textOpts, plan, shown,
                 prefix, legend>>

\* initChart and updateBars returned: the timeout is set
Return(i) ==
  /\ charts[i].at = "running"
  /\ charts[i].defined
  /\ charts' = [charts EXCEPT ![i].at = "idle", ![i].pending = @ + 1,
                              ![i].last = "returned"]
  /\ timers' = timers + 1
  /\ UNCHANGED <<pc, gvars, width, svgWidth, inThrottle, props, cvars, label,
                 tref, maxLength, fitted, textOpts, plan, shown,
                 prefix, legend>>

\* initChart threw at g.data.map: the catch clause clears the flag and
\* throws again
Throw(i) ==
  /\ charts[i].at = "running"
  /\ ~charts[i].defined
  /\ charts' = [charts EXCEPT ![i].at = "idle", ![i].last = "threw"]
  /\ inThrottle' = caught(inThrottle)
  /\ UNCHANGED <<pc, gvars, width, svgWidth, timers, props, cvars, label, tref,
                 maxLength, fitted, textOpts, plan, shown,
                 prefix, legend>>

\* the timeout of the chart i fires
Timeout(i) ==
  /\ AllIdle
  /\ charts[i].pending > 0
  /\ charts' = [charts EXCEPT ![i].pending = @ - 1]
  /\ timers' = timers - 1
  /\ inThrottle' = FALSE
  /\ UNCHANGED <<pc, gvars, width, svgWidth, props, cvars, label, tref,
                 maxLength, fitted, textOpts, plan, shown,
                 prefix, legend>>

NextCharts ==
  \E i \in 1..MaxCharts : Enter(i) \/ Return(i) \/ Throw(i) \/ Timeout(i)

SpecCharts == InitCharts /\ [][NextCharts]_vars

\* a pipeline that started ends and a timeout that was set fires
FairCharts ==
  \A i \in 1..MaxCharts :
    WF_vars(Return(i)) /\ WF_vars(Throw(i)) /\ WF_vars(Timeout(i))

SpecChartsFair == SpecCharts /\ FairCharts

----------------------------------------------------------------------------
(* overrideD3FormatPrefix: the table of the abbreviations and the         *)
(* d3.formatPrefix that searches it, one iteration of its loop a step.    *)

\* the pairs of qlikNumAbbsStr after split(';') and split(':'): the number
\* that the text before the colon converts to, and the symbol; a piece
\* without a colon is a sequence of one text
AbbsLists ==
  {<< >>,
   <<<<Num(3), "k">>, <<Num(6), "M">>, <<Num(-3), "m">>>>,
   <<<<Num(6), "M">>, <<"?">>, <<NaN, "x">>>>}

\* d3NumAbs after the pairs from i on were added to t
RECURSIVE addAbbs(_, _, _)
addAbbs(t, pairs, i) ==
  IF i > Len(pairs) THEN t
  ELSE addAbbs(IF Len(pairs[i]) # 2 THEN t
               ELSE IF IsNaN(pairs[i][1]) THEN t
               ELSE [k \in DOMAIN t \cup {pairs[i][1]} |->
                       IF k = pairs[i][1] THEN pairs[i][2] ELSE t[k]],
               pairs, i + 1)

\* d3NumAbs: precision -> symbol, the precision 0 always there
d3NumAbs(pairs) == addAbbs([k \in {Num(0)} |-> ""], pairs, 1)

\* the entry of the table t at the precision k
entryOf(t, k) == [precision |-> k, symbol |-> t[k]]

\* Math.floor(Math.log10(n / d)) of integers n > 0 and d > 0
RECURSIVE log10Floor(_, _)
log10Floor(n, d) ==
  IF n < d THEN log10Floor(n * 10, d) - 1
  ELSE IF n < 10 * d THEN 0
  ELSE log10Floor(n, d * 10) + 1

\* Math.floor(Math.log10(value)): NaN below 0, -Infinity at 0
floorLog10(value) ==
  IF IsNaN(value) \/ NumLt(value, Num(0)) THEN NaN
  ELSE IF ~IsFinite(value) THEN value
  ELSE IF value = Num(0) THEN NumNeg(Frac(1, 0))
  ELSE Num(log10Floor(value.n, value.d))

\* x % 3: the sign of x, NaN when x is not finite
rem3(x) == IF ~IsFinite(x) THEN NaN ELSE Num(Sgn(x.n) * (Abs(x.n) % 3))

\* the precision determined from the value
precisionOfValue(value) ==
  CHOOSE r \in {NumSub(log10, rem3(log10)) : log10 \in {floorLog10(value)}} : TRUE

\* precision += precision < 0 ? 3 : -3
steppedTowards0(precision) ==
  NumAdd(precision, IF NumLt(precision, Num(0)) THEN Num(3) ELSE Num(-3))

\* the values and the precisions of the calls; undefined is a precision that
\* !precision treats as it treats 0
PrefixValues ==
  {NaN, Num(0), Num(-1), Frac(1, 2), Frac(1, 20000), Num(5), Num(1000),
   Num(1500000), Frac(1, 0)}
PrefixPrecisions == {NaN, Num(0), Num(1), Num(2), Num(3), Num(6), Num(-3), Num(-4)}

PrefixCalls ==
  [at : {"called"}, table : {d3NumAbs(l) : l \in AbbsLists}, value : PrefixValues,
   precision : PrefixPrecisions, result : {<< >>}]

InitPrefix ==
  /\ pc = "created"
  /\ InitG({<<1, 1>>}, [sh \in {<<1, 1>>} |-> {<< >>}])
  /\ propNormalized = FALSE
  /\ showDeltas = FALSE
  /\ InitR
  /\ props = DefaultProps
  /\ InitC
  /\ label = << >>
  /\ tref = << >>
  /\ maxLength = NaN
  /\ fitted = << >>
  /\ textOpts = DefaultTextOpts
  /\ plan = << >>
  /\ shown = << >>
  /\ charts = << >>
  /\ prefix \in PrefixCalls
  /\ legend = << >>

\* the call up to the loop: the precision is taken from the value when none
\* was given, a value of 0 or NaN returns the entry at 0
Determine ==
  /\ prefix.at = "called"
  /\ prefix' =
       IF Truthy(prefix.precision) THEN [prefix EXCEPT !.at = "loop"]
       ELSE IF ~Truthy(prefix.value)
       THEN [prefix EXCEPT !.at = "done", !.result = entryOf(prefix.table, Num(0))]
       ELSE [prefix EXCEPT !.at = "loop",
                           !.precision = precisionOfValue(prefix.value)]
  /\ UNCHANGED <<pc, gvars, rvars, props, cvars, label, tref, maxLength, fitted,
                 textOpts, plan, shown, charts, legend>>

\* an iteration of while (!(precision in d3NumAbs))
Search ==
  /\ prefix.at = "loop"
  /\ prefix.precision \notin DOMAIN prefix.table
  /\ prefix' = [prefix EXCEPT !.precision = steppedTowards0(prefix.precision)]
  /\ UNCHANGED <<pc, gvars, rvars, props, cvars, label, tref, maxLength, fitted,
                 textOpts, plan, shown, charts, legend>>

\* the loop ended: return d3NumAbs[precision]
Found ==
  /\ prefix.at = "loop"
  /\ prefix.precision \in DOMAIN prefix.table
  /\ prefix' = [prefix EXCEPT !.at = "done",
                              !.result = entryOf(prefix.table, prefix.precision)]
  /\ UNCHANGED <<pc, gvars, rvars, props, cvars, label, tref, maxLength, fitted,
                 textOpts, plan, shown, charts, legend>>

NextPrefix == Determine \/ Search \/ Found

SpecPrefix == InitPrefix /\ [][NextPrefix]_vars

\* a call that can go on goes on
SpecPrefixFair == SpecPrefix /\ WF_vars(NextPrefix)

----------------------------------------------------------------------------
(* The legend that initChart builds and the two buttons that page it.     *)
(* Lengths are whole pixels.                                              *)

itmHeight == 20
MaxLegendRows == 6

\* the legendPosition and the g.lgn.height that the layout gave it: what is
\* left of the chart's height at the sides, 1 to 3 items above and below
LegendBoxes ==
  {[position |-> p, height |-> h] : p \in {"L", "R"}, h \in {30, 90}}
    \cup {[position |-> p, height |-> itmHeight * k] : p \in {"T", "B"}, k \in 1..3}

\* the legend after initChart: rowCount rows of items in a container as high
\* as the legend; the buttons are there when the items do not fit, btnUp
\* disabled; below and above the rows are counted again beside the buttons
\* and can be more by wrapped
builtLegend(box, rowCount, wrapped, editMode) ==
  CHOOSE l \in
    {[position |-> box.position, height |-> box.height,
      buttons |-> clientHeight < itemsHeight,
      scrollHeight |->
        IF clientHeight < itemsHeight /\ box.position \in {"T", "B"}
        THEN (rowCount + wrapped) * itmHeight
        ELSE IF clientHeight < itemsHeight THEN itemsHeight ELSE clientHeight,
      clientHeight |-> clientHeight,
      scrollTop |-> 0, upDisabled |-> TRUE, downDisabled |-> FALSE,
      editMode |-> editMode] :
       clientHeight \in {box.height}, itemsHeight \in {rowCount * itmHeight}} :
    TRUE

Legends ==
  {builtLegend(box, rowCount, wrapped, editMode) :
     box \in LegendBoxes, rowCount \in 1..MaxLegendRows, wrapped \in 0..1,
     editMode \in BOOLEAN}

\* what a click moves the container by
pageOf(l) == IF l.position = "R" \/ l.position = "L" THEN l.height ELSE itmHeight

\* the scrollTop that the container keeps of the one assigned to it
scrolledTo(l, top) ==
  IF top < 0 THEN 0
  ELSE IF top > l.scrollHeight - l.clientHeight THEN l.scrollHeight - l.clientHeight
  ELSE top

\* the click handler of btnDown outside the edit mode
clickDown(l, top) ==
  [l EXCEPT !.scrollTop = top,
            !.upDisabled = FALSE,
            !.downDisabled =
              IF l.scrollHeight - l.clientHeight - top < itmHeight THEN TRUE ELSE @]

\* the click handler of btnUp outside the edit mode
clickUpEnabled(l, top) ==
  [l EXCEPT !.scrollTop = top, !.downDisabled = FALSE]
clickUp(l, top) ==
  [l EXCEPT !.scrollTop = top,
            !.downDisabled = FALSE,
            !.upDisabled = IF top = 0 THEN TRUE ELSE @]

InitLegend ==
  /\ pc = "created"
  /\ InitG({<<1, 1>>}, [sh \in {<<1, 1>>} |-> {<< >>}])
  /\ propNormalized = FALSE
  /\ showDeltas = FALSE
  /\ InitR
  /\ props = DefaultProps
  /\ InitC
  /\ label = << >>
  /\ tref = << >>
  /\ maxLength = NaN
  /\ fitted = << >>
  /\ textOpts = DefaultTextOpts
  /\ plan = << >>
  /\ shown = << >>
  /\ charts = << >>
  /\ prefix = << >>
  /\ legend \in Legends

\* a click on btnDown, which a disabled button does not receive
ClickDown ==
  /\ legend.buttons
  /\ ~legend.downDisabled
  /\ legend' = IF legend.editMode THEN legend
               ELSE clickDown(legend, scrolledTo(legend, legend.scrollTop + pageOf(legend)))
  /\ UNCHANGED <<pc, gvars, rvars, props, cvars, label, tref, maxLength, fitted,
                 textOpts, plan, shown, charts, prefix>>

\* a click on btnUp, which a disabled button does not receive
ClickUp ==
  /\ legend.buttons
  /\ ~legend.upDisabled
  /\ legend' = IF legend.editMode THEN legend
               ELSE clickUp(legend, scrolledTo(legend, legend.scrollTop - pageOf(legend)))
  /\ UNCHANGED <<pc, gvars, rvars, props, cvars, label, tref, maxLength, fitted,
                 textOpts, plan, shown, charts, prefix>>

\* the sheet enters or leaves the edit mode
SetEditMode ==
  /\ legend' = [legend EXCEPT !.editMode = ~@]
  /\ UNCHANGED <<pc, gvars, rvars, props, cvars, label, tref, maxLength, fitted,
                 textOpts, plan, shown, charts, prefix>>

NextLegend == ClickDown \/ ClickUp \/ SetEditMode

SpecLegend == InitLegend /\ [][NextLegend]_vars

----------------------------------------------------------------------------
(* barText: the position and the text of the label of a datum.  The text  *)
(* that getBarLabelText takes from the datum is a sequence of glyphs.     *)

TYPE_INSIDE_BARS == 1
TYPE_TOTAL_POS == 2
TYPE_TOTAL_NEG == 3

\* the height of the box of a line of text at the font size of g.tref
LineHeight == 2

\* getBarLabelText(d, g, total) when the field it selects holds txt: a
\* datum of value 0 has no label
getBarLabelText(d, txt) == IF d.qNum = Num(0) THEN << >> ELSE txt

\* g.tref.node().getBBox() with t the text of g.tref: the box of an empty
\* text is empty
getBBox(t) ==
  [width |-> Num(getComputedTextLength(t)),
   height |-> IF t = << >> THEN Num(0) ELSE Num(LineHeight)]

rotationOf(type, o, orientation) ==
  type = TYPE_INSIDE_BARS /\ o.rotateLabel /\ orientation = "V"

\* the alignments barText works with: those of g, but for a total
vAlignOf(type, o, orientation) ==
  IF type # TYPE_INSIDE_BARS /\ orientation = "V" THEN "B" ELSE o.vAlign
hAlignOf(type, o, orientation) ==
  IF type # TYPE_INSIDE_BARS /\ orientation # "V" THEN "L" ELSE o.hAlign

\* offset of barText
offsetOf(d, type) ==
  IF type = TYPE_INSIDE_BARS THEN d.offset
  ELSE IF type = TYPE_TOTAL_POS THEN d.offsetPos ELSE d.offsetNeg

\* Math.abs(g.mScale(0) - g.mScale(d.qNum))
barLength(d, ms) == MathAbs(NumSub(ScaleOf(ms, Num(0)), ScaleOf(ms, d.qNum)))

barHeightOf(d, ms, ds, orientation) ==
  IF orientation = "V" THEN barLength(d, ms) ELSE ds.rangeBand
barWidthOf(d, ms, ds, orientation) ==
  IF orientation = "V" THEN ds.rangeBand ELSE barLength(d, ms)

\* top and left of barText for the datum d with the offset and the text
\* box tb
topOf(d, type, offset, tb, o, ms, ds, orientation) ==
  IF orientation # "V" THEN BandOf(ds, d.dim1)
  ELSE IF type = TYPE_TOTAL_NEG
  THEN NumAdd(NumAdd(ScaleOf(ms, NumSub(offset, d.qNum)), tb.height),
              NumMul(Num(2), o.innerBarPadV))
  ELSE ScaleOf(ms, IF NumLt(d.qNum, Num(0)) THEN offset
                   ELSE NumAdd(offset, d.qNum))
leftOf(d, type, offset, tb, o, ms, ds, orientation) ==
  IF orientation = "V" THEN BandOf(ds, d.dim1)
  ELSE IF type = TYPE_TOTAL_NEG
  THEN NumSub(NumSub(ScaleOf(ms, offset), tb.width),
              NumMul(Num(2), o.innerBarPadH))
  ELSE ScaleOf(ms, IF NumLt(d.qNum, Num(0)) THEN NumAdd(offset, d.qNum)
                   ELSE offset)

\* enough room for the height of the characters
roomFor(rotation, tb, o, barHeight, barWidth) ==
  \/ rotation
     /\ NumLe(NumAdd(tb.height, NumMul(Num(2), o.innerBarPadH)), barWidth)
  \/ ~rotation
     /\ NumLe(NumAdd(tb.height, NumMul(Num(2), o.innerBarPadV)), barHeight)

\* textY aligned as set, whether there is room or not
textYAligned(top, tb, o, vAlign, barHeight, room) ==
  IF vAlign = "C"
  THEN NumAdd(top, NumDiv(NumAdd(barHeight, tb.height), Num(2)))
  ELSE IF vAlign = "B"
  THEN NumSub(NumAdd(top, barHeight), o.innerBarPadV)
  ELSE NumAdd(NumAdd(top, tb.height), o.innerBarPadV)
\* textY: top-aligned unless there is room and another alignment is set
textYOf(top, tb, o, vAlign, barHeight, room) ==
  IF room /\ vAlign = "C"
  THEN NumAdd(top, NumDiv(NumAdd(barHeight, tb.height), Num(2)))
  ELSE IF room /\ vAlign = "B"
  THEN NumSub(NumAdd(top, barHeight), o.innerBarPadV)
  ELSE NumAdd(NumAdd(top, tb.height), o.innerBarPadV)

\* textWidth
textWidthOf(rotation, tb) == IF rotation THEN tb.height ELSE tb.width

\* textX: left-aligned unless there is room, in height and in width, and
\* another alignment is set
textXOf(left, o, hAlign, barWidth, textWidth, room) ==
  IF room /\ NumLe(NumAdd(textWidth, NumMul(Num(2), o.innerBarPadH)), barWidth)
          /\ hAlign = "C"
  THEN NumAdd(left, NumDiv(NumSub(barWidth, textWidth), Num(2)))
  ELSE IF room
          /\ NumLe(NumAdd(textWidth, NumMul(Num(2), o.innerBarPadH)), barWidth)
          /\ hAlign = "R"
  THEN NumSub(NumSub(NumAdd(left, barWidth), textWidth), o.innerBarPadH)
  ELSE NumAdd(left, o.innerBarPadH)

\* maxLength of barText
maxLengthOf(type, rotation, o, barHeight, barWidth) ==
  IF type # TYPE_INSIDE_BARS THEN barWidth
  ELSE IF rotation THEN NumSub(barHeight, NumMul(Num(2), o.innerBarPadV))
  ELSE NumSub(barWidth, NumMul(Num(2), o.innerBarPadH))

\* txt when there is room for the height of the text t of g.tref
fitText(t, maxLen, textDots) ==
  IF textDots THEN ellipseReturn(ellipseText(t, maxLen))
  ELSE IF NumLt(maxLen, Num(getComputedTextLength(t))) THEN << >> ELSE t

\* Number.isFinite(x) ? x : 0
finiteOr0(x) == IF IsFinite(x) THEN x ELSE Num(0)

\* what barText returns once room, textX, textY and maxLength are known
barTextReturn(t, o, barGap, rotation, room, textX, textY, maxLen) ==
  [x |-> finiteOr0(textX),
   y |-> finiteOr0(textY),
   text |-> IF barGap = Num(1) \/ ~room THEN << >>
            ELSE fitText(t, maxLen, o.textDots),
   rotation |-> rotation]

\* barText once the text box and the size of the bar are known
barTextSized(d, type, t, o, p, ms, ds, rotation, tb, barHeight, barWidth) ==
  CHOOSE r \in
    {barTextReturn(t, o, p.barGap, rotation, room,
                   textXOf(leftOf(d, type, offsetOf(d, type), tb, o, ms, ds,
                                  p.orientation),
                           o, hAlignOf(type, o, p.orientation), barWidth,
                           textWidthOf(rotation, tb), room),
                   textYOf(topOf(d, type, offsetOf(d, type), tb, o, ms, ds,
                                 p.orientation),
                           tb, o, vAlignOf(type, o, p.orientation), barHeight,
                           room),
                   maxLengthOf(type, rotation, o, barHeight, barWidth)) :
       room \in {roomFor(rotation, tb, o, barHeight, barWidth)}} : TRUE

\* g.barText(d, type) with t the text getBarLabelText gave g.tref, the text
\* properties o, the presentation properties p and the scales ms and ds
barText(d, type, t, o, p, ms, ds) ==
  barTextSized(d, type, t, o, p, ms, ds, rotationOf(type, o, p.orientation),
               getBBox(t), barHeightOf(d, ms, ds, p.orientation),
               barWidthOf(d, ms, ds, p.orientation))

\* the calls of barText that createBars and updateBars make on what is
\* drawn: one for every point, one for every group with a total
LabelCalls ==
  {[d |-> flatData[k], type |-> TYPE_INSIDE_BARS] :
     k \in {k \in 1..Len(flatData) : props.showTexts \in {"B", "A"}}}
  \cup
  {[d |-> data[i], type |-> TYPE_TOTAL_POS] :
     i \in {i \in 1..Len(data) :
              /\ props.showTexts \in {"T", "A"} /\ ~normalized
              /\ NumLt(Num(0), mScale.domain[2])
              /\ FirstOfKey([j \in 1..Len(data) |-> data[j].dim1], i)}}
  \cup
  {[d |-> data[i], type |-> TYPE_TOTAL_NEG] :
     i \in {i \in 1..Len(data) :
              /\ props.showTexts \in {"T", "A"} /\ ~normalized
              /\ NumLt(mScale.domain[1], Num(0))
              /\ FirstOfKey([j \in 1..Len(data) |-> data[j].dim1], i)}}

\* the texts the host gives the fields of a datum
BarLabels == {<<"a">>, <<"a", ".", "W">>, <<"W", "W", "a">>}

\* one call of barText of the each() of the labels
Label ==
  /\ pc = "linked"
  /\ plan = << >>
  /\ \E c \in LabelCalls, txt \in BarLabels :
       \E t \in {getBarLabelText(c.d, txt)} :
         plan' = <<[d |-> c.d, type |-> c.type, label |-> t,
                    result |-> barText(c.d, c.type, t, textOpts, props,
                                       mScale, dScale)]>>
  /\ UNCHANGED <<pc, gvars, rvars, props, cvars, label, tref, maxLength,
                 fitted, textOpts, shown, charts, prefix,
                 legend>>

MaxLabelPoints == 2
LabelShapes == {<<1, 1>>, <<2, 1>>}

\* the rows of the first dimension value a
OfFirstValue(m) == \A k \in 1..Len(m) : m[k][1].qText = Dim1Keys[1]

\* the deliveries of the label specification: one group, of one point with
\* a measure that may be null or of up to MaxLabelPoints stacked points
LabelInputs(nd, nm) ==
  {m \in MatricesOf(nd, nm, IF nd = 2 THEN MaxLabelPoints ELSE 0)
           \cup {<<row>> : row \in RowsOf(nd, nm, NullableCells)} :
     OfFirstValue(m)}

LabelProps ==
  [orientation : {"V", "H"},
   barGap : {Frac(1, 2), Num(1)},
   outerGap : {Frac(1, 2)},
   gridHeight : {Num(1)},
   showTexts : {"A"}]

\* the text panel: alignments, paddings of 0 or 1 px, rotation, ellipsis
TextOpts ==
  {[rotateLabel |-> r, vAlign |-> al[1], hAlign |-> al[2],
    innerBarPadH |-> Num(pd[1]), innerBarPadV |-> Num(pd[2]), textDots |-> td] :
     r \in BOOLEAN, al \in {<<"T", "L">>, <<"C", "C">>, <<"B", "R">>},
     pd \in {<<0, 0>>, <<1, 0>>, <<0, 1>>}, td \in BOOLEAN}

\* a chart in a container 46 px wide: its inner width is 6 px
InitLabel ==
  /\ pc = "created"
  /\ InitG(LabelShapes, [sh \in LabelShapes |-> LabelInputs(sh[1], sh[2])])
  /\ showDeltas = FALSE
  /\ width = 46
  /\ svgWidth = 0
  /\ inThrottle = FALSE
  /\ timers = 0
  /\ props \in LabelProps
  /\ InitC
  /\ label = << >>
  /\ tref = << >>
  /\ maxLength = NaN
  /\ fitted = << >>
  /\ textOpts \in TextOpts
  /\ plan = << >>
  /\ shown = << >>
  /\ charts = << >>
  /\ prefix = << >>
  /\ legend = << >>

NextLabel == Link \/ Label

SpecLabel == InitLabel /\ [][NextLabel]_vars

----------------------------------------------------------------------------
(* Properties of the shaped model *)

RECURSIVE SumNums(_)
SumNums(xs) == IF xs = << >> THEN Num(0) ELSE NumAdd(Head(xs), SumNums(Tail(xs)))

NonNeg(x) == ~IsNaN(x) /\ ~NumLt(x, Num(0))
Neg(x) == NumLt(x, Num(0))

QNumsOf(points) == [k \in 1..Len(points) |-> points[k].qNum]
\* the sum of qNum over the points whose qNum >= 0, and over those with qNum < 0
SumNonNeg(points) == SumNums(SelectSeq(QNumsOf(points), NonNeg))
SumNeg(points) == SumNums(SelectSeq(QNumsOf(points), Neg))

\* a model that initData built from 2-dimension input
Built2 == pc = "shaped" /\ nDims = 2

StackTopsAreSums ==
  \A gi \in 1..Len(data) :
    /\ NumEq(data[gi].offsetPos, SumNonNeg(data[gi].values))
    /\ NumEq(data[gi].offsetNeg, SumNeg(data[gi].values))

\* C1 as stated: in every model built from 2-dimension input, normalized on
\* or off, each group's offsetPos is the sum of its points' qNum that are
\* >= 0 and its offsetNeg is the sum of its points' qNum that are < 0.
C1_AsStated == Built2 => StackTopsAreSums

\* C1 amended: with normalized off, each group's offsetPos is the sum of
\* its points' qNum that are >= 0 and its offsetNeg the sum of those < 0.
C1_StackTops == (Built2 /\ ~normalized) => StackTopsAreSums

C1_Witness ==
  /\ Built2 /\ ~normalized
  /\ \E gi \in 1..Len(data) :
       Len(data[gi].values) = 2 /\ data[gi].offsetPos = Num(2)
  /\ \E gi \in 1..Len(data) : data[gi].offsetNeg = Num(-1)

\* C2: walking a group's points in series order, the offset of a point with
\* qNum >= 0 is the sum of qNum of the earlier points with qNum >= 0, and the
\* offset of a point with qNum < 0 is the sum of the earlier points with
\* qNum < 0.
C2_Offsets ==
  Built2 =>
    \A gi \in 1..Len(data) :
      LET v == data[gi].values
      IN \A k \in 1..Len(v) :
           /\ NonNeg(v[k].qNum) =>
                NumEq(v[k].offset, SumNonNeg(SubSeq(v, 1, k - 1)))
           /\ Neg(v[k].qNum) =>
                NumEq(v[k].offset, SumNeg(SubSeq(v, 1, k - 1)))

C2_Witness ==
  /\ Built2
  /\ \E gi \in 1..Len(data) :
       LET v == data[gi].values
       IN /\ Len(v) = 2
          /\ NumLt(Num(0), v[1].qNum)
          /\ NumLt(Num(0), v[2].offset)
  /\ \E gi \in 1..Len(data) :
       LET v == data[gi].values
       IN Len(v) = 1 /\ Neg(v[1].qNum)

\* the sum of the values of the points of a group that are of the sign of p:
\* the negative ones for a negative p, all the others otherwise
SameSignSum(points, p) ==
  IF Neg(p.qNum) THEN SumNeg(points)
  ELSE SumNums(SelectSeq(QNumsOf(points), LAMBDA x : ~Neg(x)))

\* C3 as stated: with normalized on, for every point p the values of the
\* points of p's group that have p's sign sum to 1 in absolute value.
C3_AsStated ==
  (Built2 /\ normalized) =>
    \A gi \in 1..Len(data) :
      \A k \in 1..Len(data[gi].values) :
        LET sum == SameSignSum(data[gi].values, data[gi].values[k])
        IN NumEq(sum, Num(1)) \/ NumEq(sum, Num(-1))

\* the stack top of the sign of a point: offsetNeg for a negative point,
\* offsetPos otherwise
TopOf(g, p) == IF Neg(p.qNum) THEN g.offsetNeg ELSE g.offsetPos

\* C3 amended: with normalized on, for every point p whose group's stack top
\* of p's sign is not 0, the values of the points of p's group that have p's
\* sign sum to 1 in absolute value.
C3_NormalizedSums ==
  (Built2 /\ normalized) =>
    \A gi \in 1..Len(data) :
      \A k \in 1..Len(data[gi].values) :
        LET p == data[gi].values[k]
            sum == SameSignSum(data[gi].values, p)
        IN TopOf(data[gi], p) # Num(0) =>
             (NumEq(sum, Num(1)) \/ NumEq(sum, Num(-1)))

C3_Witness ==
  /\ Built2 /\ normalized
  /\ \E gi \in 1..Len(data) :
       LET v == data[gi].values
       IN Len(v) = 2 /\ v[1].qNum = Frac(1, 2) /\ v[2].qNum = Frac(1, 2)
  /\ \E gi \in 1..Len(data) :
       LET v == data[gi].values
       IN Len(v) = 1 /\ v[1].qNum = Num(-1)

\* the rows initData works on
InRows == InData(rawData, defDims, defMeas, measures)

\* the targets of the edges that leave a node of S
Successors(edges, S) ==
  {edges[i][2] : i \in {j \in 1..Len(edges) : edges[j][1] \in S}}

RECURSIVE ReachFrom(_, _)
ReachFrom(edges, S) ==
  LET T == S \cup Successors(edges, S)
  IN IF T = S THEN S ELSE ReachFrom(edges, T)

\* the nodes reachable from the set from through one or more edges
Reach(edges, from) == ReachFrom(edges, Successors(edges, from))

HasCycle(edges) ==
  \E i \in 1..Len(edges) : edges[i][1] \in Reach(edges, {edges[i][1]})

\* C4: when the edges collected from the rows form a cycle, allDim2 is the
\* first-encounter order of the second-dimension values.
C4_CycleFallback ==
  (Built2 /\ HasCycle(Scan(InRows).edges)) =>
    allDim2 = Distinct([k \in 1..Len(InRows) |-> InRows[k][2].qText])

C4_Witness ==
  /\ Built2
  /\ HasCycle(Scan(InRows).edges)
  /\ Len(allDim2) = 2
  /\ Len(data) = 1

\* C6: every group of a 2-dimension model has exactly one point per series
\* key, in the order of allDim2, and the point of a series the group lacks
\* is a placeholder with value 0, text "-" and empty element id.
C6_OnePointPerSeries ==
  Built2 =>
    \A gi \in 1..Len(data) :
      LET v == data[gi].values
      IN /\ Len(v) = Len(allDim2)
         /\ \A k \in 1..Len(v) :
              /\ v[k].dim2 = allDim2[k]
              /\ (~\E i \in 1..Len(InRows) :
                     /\ InRows[i][1].qText = data[gi].dim1
                     /\ InRows[i][2].qText = allDim2[k])
                 => /\ v[k].qNum = Num(0)
                    /\ v[k].qText = "-"
                    /\ v[k].qElemNumber = << >>

\* the points of the group of key dim1 that have series key dim2
PointsOf(dim1, dim2) ==
  {e \in {flatData[k] : k \in 1..Len(flatData)} : e.dim1 = dim1 /\ e.dim2 = dim2}

\* C7: every delta record joins the same series in two adjacent groups: the
\* series of the record is present in the previous and in the current
\* group, and the record's points are those of that series in both.
C7_DeltasJoinOneSeries ==
  Built2 =>
    \A k \in 1..Len(deltas) :
      LET dl == deltas[k]
      IN /\ \E gi \in 2..Len(data) :
              data[gi - 1].dim1 = dl.dim1p /\ data[gi].dim1 = dl.dim1c
         /\ \E e \in PointsOf(dl.dim1p, dl.dim2) :
              dl.points[1] = e.offset /\ dl.points[3] = e.qNum
         /\ \E e \in PointsOf(dl.dim1c, dl.dim2) :
              dl.points[2] = e.offset /\ dl.points[4] = e.qNum

\* the raw rows of a first-dimension value
RawRowsOf(key) == SelectSeq(rawData, LAMBDA d : d[1].qText = key)

\* one dimension and more than one measure, shaped
MultiMeasure ==
  pc = "shaped" /\ defDims = 1 /\ defMeas > 1 /\ Accepted(rawData, defDims, defMeas)

\* C9 as stated: with one dimension and more than one measure the model is
\* 2-dimensional with the measure names as the series, and every point
\* carries a value of the first measure: the other measures are discarded.
C9_AsStated ==
  MultiMeasure =>
    /\ nDims = 2
    /\ allDim2 = measures
    /\ \A k \in 1..Len(flatData) :
         \E i \in 1..Len(RawRowsOf(flatData[k].dim1)) :
           flatData[k].qText = RawRowsOf(flatData[k].dim1)[i][2].qText

\* C9 amended: with one dimension and more than one measure the model is
\* 2-dimensional with the measure names as the series, and no measure is
\* discarded: the group of a first-dimension value has, for every measure j,
\* one point of series measures[j] that carries the text of measure j of the
\* first row of that value, and its number when normalized is off (0 for a
\* number that is not finite).
C9_EveryMeasure ==
  MultiMeasure =>
    /\ nDims = 2
    /\ allDim2 = measures
    /\ \A gi \in 1..Len(data) :
         \A j \in 1..defMeas :
           LET cell == RawRowsOf(data[gi].dim1)[1][j + 1]
               e == data[gi].values[j]
           IN /\ Len(data[gi].values) = defMeas
              /\ e.dim2 = measures[j]
              /\ e.qText = cell.qText
              /\ ~normalized =>
                   e.qNum = (IF IsFinite(cell.qNum) THEN cell.qNum ELSE Num(0))

C9_Witness ==
  /\ MultiMeasure
  /\ Len(data) = 1
  /\ data[1].values[1].qText = "1"
  /\ data[1].values[2].qText = "-1"

\* the edges that initData collected from the rows
EdgesOf(in) == Scan(in).edges

\* every value of s occurs once in s
NoRepeats(s) == \A i, j \in 1..Len(s) : s[i] = s[j] => i = j

\* the values of a sequence
Range(s) == {s[i] : i \in 1..Len(s)}

\* C16: when the edges observed between consecutive rows of one
\* first-dimension run are acyclic, allDim2 is a permutation of the distinct
\* second-dimension values in which a comes before b for every edge (a, b).
C16_EdgesRespected ==
  (Built2 /\ ~HasCycle(EdgesOf(InRows))) =>
    /\ NoRepeats(allDim2)
    /\ Range(allDim2) = {InRows[k][2].qText : k \in 1..Len(InRows)}
    /\ \A i \in 1..Len(EdgesOf(InRows)) :
         IndexOf(allDim2, EdgesOf(InRows)[i][1])
           < IndexOf(allDim2, EdgesOf(InRows)[i][2])

\* an edge forces an order of allDim2 that differs from first encounter
C16_Witness ==
  /\ Built2
  /\ ~HasCycle(EdgesOf(InRows))
  /\ EdgesOf(InRows) = <<<<"y", "x">>>>
  /\ Scan(InRows).q = <<"x", "y">>
  /\ allDim2 = <<"y", "x">>

\* the delta record of slot k of the adjacent groups p and c
JoinsSlot(dl, p, c, k) ==
  /\ k <= Len(p.values) /\ k <= Len(c.values)
  /\ dl.dim1p = p.dim1 /\ dl.dim1c = c.dim1
  /\ dl.dim2 = p.values[k].dim2
  /\ dl.delta = NumSub(c.values[k].qNum, p.values[k].qNum)
  /\ dl.points = <<p.values[k].offset, c.values[k].offset,
                   p.values[k].qNum, c.values[k].qNum>>

\* C17: deltas are produced only when showDeltas is set and the input is
\* 2-dimensional; every record pairs a group with its immediate predecessor
\* in group order, its delta is the value of the current point minus the
\* value of the previous point and its points are [previous offset, current
\* offset, previous value, current value], taken from the model (the
\* normalized values and offsets when normalized is on).
C17_Deltas ==
  pc = "shaped" =>
    /\ deltas # << >> => (showDeltas /\ nDims = 2)
    /\ \A i \in 1..Len(deltas) :
         \E gi \in 2..Len(data) :
           \E k \in 1..Len(data[gi].values) :
             JoinsSlot(deltas[i], data[gi - 1], data[gi], k)

\* a delta between two normalized points of a series and one that falls
C17_Witness ==
  /\ pc = "shaped" /\ showDeltas /\ nDims = 2 /\ normalized
  /\ Len(deltas) = 1
  /\ deltas[1].delta = Frac(-1, 2)
  /\ deltas[1].points = <<Num(0), Num(0), Num(1), Frac(1, 2)>>

\* C18: the model has exactly one group per distinct first-dimension value,
\* in the order of first appearance in the rows, for 1-dimension input as
\* for 2-dimension input.
C18_OneGroupPerValue ==
  (pc = "shaped" /\ Accepted(rawData, defDims, defMeas)) =>
    [gi \in 1..Len(data) |-> data[gi].dim1]
      = Distinct([k \in 1..Len(InRows) |-> InRows[k][1].qText])

----------------------------------------------------------------------------
(* Properties of the scales and the geometry *)

\* the offsets the sweep of g.max and g.min goes over: 0, the stack tops of
\* every group, the offset of every point
SweptPos ==
  {Num(0)} \cup {data[i].offsetPos : i \in 1..Len(data)}
           \cup {flatData[k].offset : k \in 1..Len(flatData)}
SweptNeg ==
  {Num(0)} \cup {data[i].offsetNeg : i \in 1..Len(data)}
           \cup {flatData[k].offset : k \in 1..Len(flatData)}

IsGreatest(x, S) == x \in S /\ \A y \in S : NumLe(y, x)
IsLeast(x, S) == x \in S /\ \A y \in S : NumLe(x, y)

\* a chart that was linked and drew its model
Drawn == pc = "linked" /\ Len(data) > 0

\* C19: before nicing the numeric domain is [min, max]; not normalized, max
\* is gridHeight times the greatest of 0, the groups' offsetPos and the
\* points' offsets and min gridHeight times the least of 0, the groups'
\* offsetNeg and the points' offsets; normalized, max is gridHeight if some
\* group has a positive stack and 0 otherwise, min is -gridHeight if some
\* group has a negative stack and 0 otherwise; hence min <= 0 <= max
C19_DomainBeforeNice ==
  Drawn =>
    /\ IF normalized
       THEN /\ max = IF \E i \in 1..Len(data) : NumLt(Num(0), data[i].offsetPos)
                     THEN props.gridHeight ELSE Num(0)
            /\ min = IF \E i \in 1..Len(data) : NumLt(data[i].offsetNeg, Num(0))
                     THEN NumNeg(props.gridHeight) ELSE Num(0)
       ELSE /\ \E x \in SweptPos :
                 IsGreatest(x, SweptPos) /\ max = NumMul(props.gridHeight, x)
            /\ \E x \in SweptNeg :
                 IsLeast(x, SweptNeg) /\ min = NumMul(props.gridHeight, x)
    /\ NumLe(min, Num(0))
    /\ NumLe(Num(0), max)

\* the measure of every row of the delivery is a number
FiniteMeasures ==
  \A k \in 1..Len(rawData) : IsFinite(rawData[k][Len(rawData[k])].qNum)

\* C20: after a refresh the numeric scale has the niced domain, the domain
\* rounded outward from [g.min, g.max]
C20_NicedDomainKept == Drawn => mScale.domain = nice(<<min, max>>)

\* the rect of the bar b has numbers as x, y, width and height
BarIsNumbers(b) ==
  ~IsNaN(b.x) /\ ~IsNaN(b.y) /\ ~IsNaN(b.width) /\ ~IsNaN(b.height)
\* the polygon with the points pts has numbers as coordinates
PolyIsNumbers(pts) == \A j \in 1..Len(pts) : ~IsNaN(pts[j])

\* C11: the layout never produces a NaN or undefined pixel coordinate: every
\* bar's x, y, width and height and every point of every delta polygon is a
\* number, for every model, the all-zero normalized one with deltas included
C11_NoNaNCoordinates ==
  Drawn =>
    /\ \A k \in 1..Len(bars) : BarIsNumbers(bars[k])
    /\ \A k \in 1..Len(polys) : PolyIsNumbers(polys[k])

\* the extent of the rect of the bar b along the categorical axis
BandExtent(b) == IF props.orientation = "V" THEN b.width ELSE b.height

\* texts the alignment part of barText can leave: none, a label, a fitted one
LabelTexts == {"", "1", "-1", "a..."}

\* C13: with barGap = 1 every bar's extent along the categorical axis is 0
\* and barText returns the empty text, whatever its alignment part left
C13_BarGapOne ==
  (Drawn /\ props.barGap = Num(1)) =>
    /\ \A k \in 1..Len(bars) : BandExtent(bars[k]) = Num(0)
    /\ \A txt \in LabelTexts : barTextOf(txt, props.barGap) = ""

\* the fields a group and a point have when initData made them
GroupFields == {"dim1", "offsetPos", "offsetNeg", "values"}
PointFields ==
  {"dim1", "dim2", "offset", "qNum", "qText", "qTextPct", "qElemNumber",
   "measureNumber"}

\* C14: running the layout leaves the model unchanged: after refreshChart
\* every group of g.data and every point of g.flatData has exactly the
\* fields and values initData gave it, for every showTexts setting
C14_LayoutLeavesModel ==
  Drawn =>
    /\ data = initDataOn(NoModel(propNormalized), rawData, defDims, defMeas,
                         measures, showDeltas).data
    /\ flatData = initDataOn(NoModel(propNormalized), rawData, defDims, defMeas,
                             measures, showDeltas).flatData
    /\ \A i \in 1..Len(data) : DOMAIN data[i] = GroupFields
    /\ \A k \in 1..Len(flatData) : DOMAIN flatData[k] \subseteq PointFields

\* C15: when the data watch processed a delivery, no geometry of the new
\* model is computed with g.min, g.max or scales of the previous model: what
\* is drawn after the listener is what a layout from scratch of the new
\* model draws
C15_NoStaleScales ==
  pc = "linked" =>
    /\ max = maxOfData(data, normalized, props.gridHeight)
    /\ min = minOfData(data, normalized, props.gridHeight)
    /\ Scene(data) = refreshedScene(Scene(data), Model, showDeltas, props,
                                    width, FALSE)

\* C12: ellipseText is idempotent: applied with the same maximum width to
\* its own result it returns that result unchanged, for every text and width
C12_FitIdempotent ==
  \A i \in 2..Len(fitted) : fitted[i] = fitted[i - 1]

\* a.a does not fit in 4: it is cut before the dot, to a and the ellipsis,
\* and fitting that again returns it
C12_Witness ==
  /\ label = <<"a", ".", "a">>
  /\ maxLength = Num(4)
  /\ fitted = <<<<"a", ellipsis>>, <<"a", ellipsis>>>>

----------------------------------------------------------------------------
(* Properties of the life cycle *)

\* initData was called, and its last call was made with the rawData and the
\* properties of this state (every handler that sets them ends in initData)
Delivered == pc # "created"

\* C5: when initData is called with rawData that has no rows or whose row
\* length differs from defDims + defMeas, the model it leaves is empty: no
\* groups, no data points, no deltas.
C5_RejectedLeavesEmpty ==
  (Delivered /\ ~Accepted(rawData, defDims, defMeas)) =>
    data = << >> /\ flatData = << >> /\ deltas = << >>

\* C8: after any sequence of deliveries the fields data, flatData, allDim2,
\* nDims and deltas and the flag normalized are those that initData gives
\* on a new object with the configured properties and the last delivery.
C8_LastDeliveryAlone ==
  Delivered =>
    LET alone == initDataOn(NoModel(propNormalized), rawData, defDims, defMeas,
                            measures, showDeltas)
    IN /\ data = alone.data
       /\ flatData = alone.flatData
       /\ allDim2 = alone.allDim2
       /\ nDims = alone.nDims
       /\ deltas = alone.deltas
       /\ normalized = alone.normalized

\* no refresh is in flight and no timer of one is pending
Idle == ~inThrottle /\ timers = 0

\* C10: a refreshChart call made while inThrottle is set is deferred and
\* retried, so the last resize is rendered in the end: once no refresh is in
\* flight and no timer is pending, the svg has the width of the last resize.
C10_LastResizeRendered == (pc = "linked" /\ Idle) => svgWidth = width

----------------------------------------------------------------------------
(* Properties of the categorical scale and the bars *)

\* the pixel position g.dScale gives the group i of g.data
GroupPos(i) == BandOf(dScale, data[i].dim1)

\* no two groups of g.data have the same dim1
DistinctGroups ==
  \A i \in 1..Len(data) : \A j \in (i + 1)..Len(data) :
    data[i].dim1 # data[j].dim1

\* C21: the categorical scale lies over [innerHeight, 0] when horizontal and
\* over [0, innerWidth] when vertical, and in both orientations the first
\* group of g.data gets the smallest pixel position and each later group a
\* strictly larger one
C21_GroupsInOrder ==
  Drawn =>
    /\ dScale.extent = IF props.orientation = "V"
                       THEN <<Num(0), innerWidth(width)>>
                       ELSE <<innerHeight, Num(0)>>
    /\ \A i \in 1..Len(data) : \A j \in (i + 1)..Len(data) :
         NumLt(GroupPos(i), GroupPos(j))

\* the point of g.flatData at k has a sign: its value is a number
Signed(k) == ~IsNaN(flatData[k].qNum)
\* the points at k and l are stacked on the same side of zero
SameSign(k, l) ==
  /\ Signed(k) /\ Signed(l)
  /\ NumLt(flatData[k].qNum, Num(0)) <=> NumLt(flatData[l].qNum, Num(0))

\* the two ends of the rect b along the measure axis, in pixels
LowEnd(b) == IF props.orientation = "V" THEN b.y ELSE b.x
HighEnd(b) ==
  IF props.orientation = "V" THEN NumAdd(b.y, b.height) ELSE NumAdd(b.x, b.width)

\* vertical, pixels fall as values rise: the end of b towards the zero line
\* and the end away from it, for a point of value num
NearEdge(b, num) ==
  IF (props.orientation = "V") <=> NumLt(num, Num(0)) THEN LowEnd(b) ELSE HighEnd(b)
FarEdge(b, num) ==
  IF (props.orientation = "V") <=> NumLt(num, Num(0)) THEN HighEnd(b) ELSE LowEnd(b)

\* x and y differ by at most tol pixels
Within(x, y, tol) == NumLe(MathAbs(NumSub(x, y)), tol)

\* the point at l is the next of the sign of the point at k in its group
NextInStack(k, l) ==
  /\ nDims = 2
  /\ k < l
  /\ flatData[k].dim1 = flatData[l].dim1
  /\ SameSign(k, l)
  /\ \A j \in (k + 1)..(l - 1) :
       flatData[j].dim1 = flatData[k].dim1 => ~SameSign(k, j)

\* C22: along the measure axis the rect of every point that has a sign spans
\* from g.mScale(offset) to g.mScale(offset + value), each end within the
\* half pixel of the shift and the inset, in both orientations and for
\* negative values; so the far edge of a bar and the near edge of the next
\* bar of its sign in its group are at most one pixel apart
C22_StackedEdges ==
  Drawn =>
    /\ \A k \in 1..Len(bars) :
         Signed(k) =>
           /\ Within(NearEdge(bars[k], flatData[k].qNum),
                     ScaleOf(mScale, flatData[k].offset), Frac(1, 2))
           /\ Within(FarEdge(bars[k], flatData[k].qNum),
                     ScaleOf(mScale, NumAdd(flatData[k].offset, flatData[k].qNum)),
                     Frac(1, 2))
    /\ \A k \in 1..Len(bars) : \A l \in 1..Len(bars) :
         NextInStack(k, l) =>
           Within(FarEdge(bars[k], flatData[k].qNum),
                  NearEdge(bars[l], flatData[l].qNum), Num(1))

\* a horizontal chart stacked two bars of -1 in one group, at different x
C22_Witness ==
  /\ Drawn
  /\ props.orientation = "H"
  /\ Len(bars) = 2
  /\ NextInStack(1, 2)
  /\ flatData[1].qNum = Num(-1)
  /\ flatData[2].qNum = Num(-1)
  /\ bars[1].x # bars[2].x

\* the size of the rect b along the measure axis
MeasureSize(b) == IF props.orientation = "V" THEN b.height ELSE b.width

\* C27: in both orientations the size along the measure axis that updateBars
\* gives a bar, the height when vertical and the width when horizontal, is
\* never negative, a value of 0 and an extent below one pixel included
C27_SizeNotNegative ==
  Drawn => \A k \in 1..Len(bars) : ~NumLt(MeasureSize(bars[k]), Num(0))

\* the same of the vertical charts alone
VerticalSizeNotNegative ==
  (Drawn /\ props.orientation = "V") =>
    \A k \in 1..Len(bars) : NumLe(Num(0), bars[k].height)

----------------------------------------------------------------------------
(* Properties of the labels *)

\* maxLength of the barText call c
PlanMaxLength(c) ==
  maxLengthOf(c.type, c.result.rotation, textOpts,
              barHeightOf(c.d, mScale, dScale, props.orientation),
              barWidthOf(c.d, mScale, dScale, props.orientation))

\* txt is t cut to a shorter, non-empty beginning, with the ellipsis appended
IsTruncation(txt, t) ==
  \E n \in 1..(Len(t) - 1) : txt = SubSeq(t, 1, n) \o <<ellipsis>>

\* C23: the text barText returns is empty or no wider than the maximum
\* width of the label; with textDots on it is the label, a truncation of it
\* with the ellipsis, or empty; with textDots off it is the label unmodified
\* or empty
C23_LabelFits ==
  \A i \in 1..Len(plan) :
    /\ \/ plan[i].result.text = << >>
       \/ NumLe(Num(getComputedTextLength(plan[i].result.text)),
                PlanMaxLength(plan[i]))
    /\ IF textOpts.textDots
       THEN \/ plan[i].result.text \in {<< >>, plan[i].label}
            \/ IsTruncation(plan[i].result.text, plan[i].label)
       ELSE plan[i].result.text \in {<< >>, plan[i].label}

\* top and left of the barText call c: the origin of the bar of its datum
PlanTop(c) ==
  topOf(c.d, c.type, offsetOf(c.d, c.type), getBBox(c.label), textOpts,
        mScale, dScale, props.orientation)
PlanLeft(c) ==
  leftOf(c.d, c.type, offsetOf(c.d, c.type), getBBox(c.label), textOpts,
         mScale, dScale, props.orientation)

\* the height of the text of the call c plus twice the inner padding
\* exceeds the size of the bar: its width when the label is rotated, its
\* height when not
TooHigh(c) ==
  IF c.result.rotation
  THEN NumLt(barWidthOf(c.d, mScale, dScale, props.orientation),
             NumAdd(getBBox(c.label).height,
                    NumMul(Num(2), textOpts.innerBarPadH)))
  ELSE NumLt(barHeightOf(c.d, mScale, dScale, props.orientation),
             NumAdd(getBBox(c.label).height,
                    NumMul(Num(2), textOpts.innerBarPadV)))

\* C30 as stated: for an in-bar label whose text height plus twice the inner
\* padding exceeds the size of the bar, barText returns the empty text and
\* as position the origin of the bar plus the inner padding
C30_AsStated ==
  \A i \in 1..Len(plan) :
    (plan[i].type = TYPE_INSIDE_BARS /\ TooHigh(plan[i])) =>
      /\ plan[i].result.text = << >>
      /\ plan[i].result.x = NumAdd(PlanLeft(plan[i]), textOpts.innerBarPadH)
      /\ plan[i].result.y = NumAdd(PlanTop(plan[i]), textOpts.innerBarPadV)

\* C30: for an in-bar label whose text height plus twice the inner padding
\* exceeds the size of the bar (its height when not rotated, its width when
\* rotated), barText returns the empty text, x = left + innerBarPadH and
\* y = top + the text height + innerBarPadV, with no centering, right or
\* bottom alignment; a coordinate that is not finite is returned as 0
C30_TopLeftAnchored ==
  \A i \in 1..Len(plan) :
    (plan[i].type = TYPE_INSIDE_BARS /\ TooHigh(plan[i])) =>
      /\ plan[i].result.text = << >>
      /\ plan[i].result.x
           = finiteOr0(NumAdd(PlanLeft(plan[i]), textOpts.innerBarPadH))
      /\ plan[i].result.y
           = finiteOr0(NumAdd(NumAdd(PlanTop(plan[i]),
                                     getBBox(plan[i].label).height),
                              textOpts.innerBarPadV))

\* a rotated label a on a band of 2 px with 1 px of padding: the text would
\* fit the length of the bar, bottom and right alignment are set, and the
\* label is empty, a text height below the top of the bar
C30_Witness ==
  /\ Len(plan) = 1
  /\ plan[1].type = TYPE_INSIDE_BARS
  /\ plan[1].result.rotation
  /\ TooHigh(plan[1])
  /\ plan[1].label = <<"a">>
  /\ NumLe(getBBox(plan[1].label).width, PlanMaxLength(plan[1]))
  /\ props.barGap # Num(1)
  /\ textOpts.hAlign = "R"
  /\ textOpts.vAlign = "B"
  /\ plan[1].result.text = << >>
  /\ plan[1].result.y = NumAdd(PlanTop(plan[1]), Num(LineHeight))

\* C24: a tick label or legend item truncated to a width shows the text the
\* in-bar fitter returns for that text and width: trailing . and - are
\* stripped before the ellipsis, and a label of which nothing fits is empty
C24_TruncatedAsFitted ==
  (Len(shown) > 0 /\ Len(fitted) > 0) => shown[1].text = fitted[1]

----------------------------------------------------------------------------
(* Properties of the refreshes of several charts.                         *)

\* a step in which refreshChart was called on the chart i
Called(i) == charts'[i].calls = charts[i].calls + 1

\* C25: with two charts, a refreshChart call on a chart that has no timeout
\* of its own pending starts the pipeline of that chart, whether or not the
\* other chart refreshed earlier in the same tick: the flag set by one chart
\* never suppresses a refresh of another.
C25_OwnFlagOnly ==
  [][\A i \in 1..MaxCharts :
       (Called(i) /\ charts[i].pending = 0) => charts'[i].runs = charts[i].runs + 1]_vars

\* C26: a chart whose pipeline is executing finds the flag set; the step in
\* which the pipeline throws clears the flag; and a flag that is set is
\* cleared later, so that no chart is locked out for ever.
C26_FlagReleased ==
  /\ [](\A i \in 1..MaxCharts : charts[i].at = "running" => inThrottle)
  /\ [][\A i \in 1..MaxCharts :
          (charts[i].at = "running" /\ charts'[i].last = "threw"
             /\ charts'[i].at = "idle") => ~inThrottle']_vars
  /\ (inThrottle ~> ~inThrottle)

\* a chart whose pipeline threw and a chart whose timeout fired, the flag
\* cleared after both
C26_Witness ==
  /\ ~inThrottle
  /\ \E i, j \in 1..MaxCharts :
       /\ charts[i].last = "threw"
       /\ charts[j].last = "returned" /\ charts[j].pending = 0

----------------------------------------------------------------------------
(* Properties of d3.formatPrefix *)

\* C28: the d3.formatPrefix that overrideD3FormatPrefix installed ends for
\* every value and every precision and returns an entry of the table: the
\* search that steps the precision by 3 towards 0 reaches a precision of the
\* table, also for a given precision that is no multiple of 3 and for a value
\* whose logarithm is undefined
C28_PrefixFound ==
  /\ <>(prefix.at = "done")
  /\ [](prefix.at = "done" =>
          /\ prefix.result.precision \in DOMAIN prefix.table
          /\ prefix.result.symbol = prefix.table[prefix.result.precision])

\* the search is at a precision that is a multiple of 3
MultipleOf3 ==
  /\ IsFinite(prefix.precision)
  /\ prefix.precision.d = 1
  /\ prefix.precision.n % 3 = 0

\* the same of the calls whose search starts at a multiple of 3
FoundFromMultipleOf3 ==
  (prefix.at = "loop" /\ MultipleOf3) ~> (prefix.at = "done")

----------------------------------------------------------------------------
(* Properties of the legend *)

\* C29: after any sequence of clicks on the two buttons of the legend, in the
\* edit mode or out of it, btnUp is disabled exactly when the scrollTop of the
\* container is 0, as it is when the legend was built
C29_UpDisabledAtTop ==
  legend.buttons => (legend.upDisabled <=> legend.scrollTop = 0)

\* a legend at the side that was paged down to its end and one page up: in
\* the middle, both buttons enabled
C29_Witness ==
  /\ legend.buttons
  /\ legend.position = "L"
  /\ legend.height = 30
  /\ legend.scrollTop = 20
  /\ ~legend.upDisabled
  /\ ~legend.downDisabled

====
